---- MODULE Spec2Model ----
(***************************************************************************)
(* Model of AgentEndpointClient (src/agent_endpoint_client.py):            *)
(*   - query_stream, the SSE stream decoder, as a state machine that reads *)
(*     one transport line per step (specification Spec);                   *)
(*   - _parse_agent_response and its helpers, as operators applied to      *)
(*     bounded output arrays (specification SpecParse);                    *)
(*   - _parse_chart_output and _parse_genie_output applied to the output   *)
(*     of one function_call_output item (specification SpecItem);          *)
(*   - chat (specification SpecChat);                                      *)
(*   - two query_stream generators of one client, interleaved              *)
(*     (specification SpecPair);                                           *)
(* and of src/app.py:                                                      *)
(*   - the stream consume loop of the chat input handler, composed with    *)
(*     query_stream (specification SpecUI);                                *)
(*   - a whole turn of the chat input handler, from the prompt to the      *)
(*     stored assistant message (specification SpecTurn);                  *)
(*   - fetch_past_chats with its two thread pools (specification           *)
(*     SpecFetch).                                                         *)
(*                                                                         *)
(* JSON documents are tagged records:                                      *)
(*   Str(s)   a text that is not a JSON document (its characters are s)    *)
(*   Enc(d)   the text json.dumps(d), i.e. a text that json.loads decodes  *)
(*            to the document d                                            *)
(*   Map(f)   a mapping, f a record from keys to documents                 *)
(*   List(s)  an array, Num(n) a number, None the null value               *)
(* A Python exception leaving a function is the value Raise(name).         *)
(***************************************************************************)
EXTENDS Integers, Sequences, FiniteSets, TLC

VARIABLES
    use_direct_http,  \* self.use_direct_http
    pc,               \* position of the query_stream generator / of chat
    posted,           \* whether requests.post has been called
    failure,          \* str(e) of the RequestException caught, "" if none
    linesRead,        \* the lines iter_lines has delivered so far
    events,           \* the chunks the generator has yielded so far
    origin,           \* origin[i]: index of the line that produced events[i],
                      \* 0 for a chunk that no line produced
    raw_response,     \* the argument of _parse_agent_response
    result,           \* what _parse_agent_response returned or raised
    item_output,      \* the argument of _parse_chart_output/_parse_genie_output
    parsed_chart,     \* what _parse_chart_output returned or raised
    parsed_table,     \* what _parse_genie_output returned or raised
    chat_result,      \* what chat returned or raised
    ui_pc,            \* position of the consume loop of the chat input handler
    consumed,         \* the chunks the consume loop has taken from the generator
    trace_order,      \* trace_order of the handler
    active_traces,    \* active_traces of the handler
    final_response,   \* final_response of the handler
    remote,           \* the conversations the Genie API holds, per space
    space_pc,         \* position of each fetch_space call
    conv_pending,     \* per space, the conversation fetches not yet collected
    space_results,    \* space_results of each fetch_space call
    results,          \* results of fetch_past_chats
    fetch_pc,         \* position of fetch_past_chats
    listing_error,    \* per space, whether the listing of conversations raised
    streams,          \* two query_stream generators of one client
    session_messages, \* st.session_state.messages
    is_processing     \* st.session_state.is_processing

streamVars == <<use_direct_http, pc, posted, failure, linesRead, events, origin>>
parseVars == <<raw_response, result>>
itemVars == <<item_output, parsed_chart, parsed_table>>
chatVars == <<chat_result>>
uiVars == <<ui_pc, consumed, trace_order, active_traces, final_response>>
fetchVars ==
    <<remote, space_pc, conv_pending, space_results, results, fetch_pc,
      listing_error>>
pairVars == <<streams>>
turnVars == <<session_messages, is_processing>>

vars ==
    <<streamVars, parseVars, itemVars, chatVars, uiVars, fetchVars, pairVars,
      turnVars>>

(* Bounds of the model. *)
MaxLines == 3
MaxItems == 3

-----------------------------------------------------------------------------
(* Documents and the Python operations the code applies to them.           *)

Str(s) == [k |-> "str", v |-> s]
Enc(d) == [k |-> "str", j |-> d]
Map(f) == [k |-> "map", v |-> f]
List(s) == [k |-> "list", v |-> s]
Num(n) == [k |-> "num", v |-> n]
None == [k |-> "null"]
Raise(e) == [k |-> "raise", exc |-> e]

IsRaise(x) == x.k = "raise"
IsStr(x) == x.k = "str"
IsDict(x) == x.k = "map"
IsList(x) == x.k = "list"

(* json.loads(x): a text decodes to the document it encodes, any other     *)
(* text raises JSONDecodeError, a non-text argument raises TypeError.      *)
JsonLoads(x) ==
    IF IsStr(x)
    THEN IF "j" \in DOMAIN x THEN x.j ELSE Raise("JSONDecodeError")
    ELSE Raise("TypeError")

(* json.dumps(d) *)
JsonDumps(d) == Enc(d)

(* bool(x) as Python evaluates it in `if x:` *)
Truthy(x) ==
    CASE x.k = "str" -> x # Str("")
      [] x.k = "map" -> DOMAIN x.v # {}
      [] x.k = "list" -> Len(x.v) > 0
      [] x.k = "num" -> x.v # 0
      [] OTHER -> FALSE

(* key in d, for a mapping d *)
HasKey(d, key) == key \in DOMAIN d.v

(* d.get(key, default), for a mapping d *)
Get(d, key, default) == IF HasKey(d, key) THEN d.v[key] ELSE default

-----------------------------------------------------------------------------
(* More Python operations on documents.                                    *)

(* Raw texts, by what the code asks of their characters. *)
TextsStartingWithBrace == {"{not json", "{bad"}
TextsContainingPlotlyJson == {"see plotly_json"}
TextsContainingStatementResponse == {"no statement_response here"}

(* x[key] for a text key: a mapping gives the value or KeyError, anything  *)
(* else is not subscriptable by a text.                                    *)
Index(x, key) ==
    IF IsDict(x)
    THEN IF HasKey(x, key) THEN x.v[key] ELSE Raise("KeyError")
    ELSE Raise("TypeError")

(* x[0]: first element of an array, first character of a text. *)
Index0(x) ==
    CASE IsList(x) -> IF Len(x.v) > 0 THEN x.v[1] ELSE Raise("IndexError")
      [] IsStr(x) -> IF x = Str("") THEN Raise("IndexError") ELSE Str("c")
      [] IsDict(x) -> Raise("KeyError")
      [] OTHER -> Raise("TypeError")

(* Whether `key in x` is defined for x: a number or null raises TypeError. *)
IsContainer(x) == IsDict(x) \/ IsList(x) \/ IsStr(x)

(* `key in x` for a container x: key test on a mapping, element test on an *)
(* array, substring test on a text.  containing is the set of raw texts    *)
(* that contain key.                                                       *)
Contains(x, key, containing) ==
    CASE IsDict(x) -> HasKey(x, key)
      [] IsList(x) -> \E i \in DOMAIN x.v : x.v[i] = Str(key)
      [] IsStr(x) -> IF "v" \in DOMAIN x THEN x.v \in containing
                     ELSE IsDict(x.j) /\ HasKey(x.j, key)

(* The elements `for e in x` visits, as an array; TypeError if x is not    *)
(* iterable.  A mapping yields its keys and a text its characters: these   *)
(* are texts, and the callers only subscript them by a text, so one stands *)
(* for all.                                                                *)
Iterate(x) ==
    CASE IsList(x) -> x
      [] IsDict(x) -> IF DOMAIN x.v = {} THEN List(<<>>) ELSE List(<<Str("k")>>)
      [] IsStr(x) -> IF x = Str("") THEN List(<<>>) ELSE List(<<Str("c")>>)
      [] OTHER -> Raise("TypeError")

(* A list comprehension: the list of vals, or the first exception raised   *)
(* while computing its elements.                                           *)
CollectList(vals) ==
    IF \E i \in DOMAIN vals : IsRaise(vals[i])
    THEN vals[CHOOSE i \in DOMAIN vals :
                  IsRaise(vals[i]) /\ \A m \in 1..(i - 1) : ~IsRaise(vals[m])]
    ELSE List(vals)

(* [e[key] for e in it], it the elements visited or the exception raised   *)
(* when the iteration was started.                                         *)
FieldOfEach(it, key) ==
    IF IsRaise(it) THEN it
    ELSE CollectList([i \in DOMAIN it.v |-> Index(it.v[i], key)])

(* [e[key] for e in x]; an exception raised while computing x passes on. *)
ListOfField(x, key) ==
    IF IsRaise(x) THEN x ELSE FieldOfEach(Iterate(x), key)

(* x[path[1]][path[2]]..., stopping at the first exception. *)
RECURSIVE IndexPath(_, _)
IndexPath(x, path) ==
    IF path = <<>> \/ IsRaise(x) THEN x
    ELSE IndexPath(Index(x, Head(path)), Tail(path))

(* json.loads(x) if isinstance(x, str) else x *)
DecodeIfStr(x) == IF IsStr(x) THEN JsonLoads(x) ELSE x

(* text_content.strip().startswith("{") *)
StartsWithBrace(t) ==
    IF "v" \in DOMAIN t THEN t.v \in TextsStartingWithBrace ELSE IsDict(t.j)

-----------------------------------------------------------------------------
(* _parse_agent_response and its helpers                                   *)

(* Variant: no default text, the summary of an array without text is empty. *)
DEFAULT_SUMMARY_empty == Str("")

DEFAULT_SUMMARY == Str("Agent processed your request")

(* _get_text_from_item *)
GetTextFromItem(item) ==
    IF ~IsDict(item) THEN Raise("AttributeError")
    ELSE LET item_type == Get(item, "type", None)
         IN  IF item_type = Str("text") THEN Get(item, "text", Str(""))
             ELSE IF item_type = Str("message")
             THEN LET content == Get(item, "content", Str(""))
                  IN  IF IsStr(content) THEN content
                      ELSE IF IsList(content) /\ Truthy(content)
                                /\ IsDict(content.v[1])
                           THEN Get(content.v[1], "text", Str(""))
                           ELSE Str("")
             ELSE Str("")

(* _extract_summary: scan from the end, the first truthy text wins. *)
RECURSIVE SummaryFrom(_, _)
SummaryStep(arr, i, text) ==
    IF IsRaise(text) THEN text
    ELSE IF Truthy(text) THEN text
    ELSE SummaryFrom(arr, i - 1)

SummaryFrom(arr, i) ==
    IF i = 0 THEN DEFAULT_SUMMARY
    ELSE SummaryStep(arr, i, GetTextFromItem(arr[i]))

(* Variant: the scan starts at the first item, so the first text wins. *)
RECURSIVE FirstTextFrom(_, _)
FirstTextFrom(arr, i) ==
    IF i > Len(arr) THEN DEFAULT_SUMMARY
    ELSE IF IsRaise(GetTextFromItem(arr[i])) \/ Truthy(GetTextFromItem(arr[i]))
         THEN GetTextFromItem(arr[i])
         ELSE FirstTextFrom(arr, i + 1)

ExtractSummary_first(arr) == FirstTextFrom(arr, 1)

ExtractSummary(arr) == SummaryFrom(arr, Len(arr))

(* Variant: the decoded cell is never taken as a chart. *)
ChartFromCell_never(chart_json) ==
    IF IsRaise(chart_json) THEN chart_json ELSE None

(* `if "plotly_json" in chart_json: return chart_json`, chart_json the     *)
(* decoded first cell or the exception raised on the way to it.            *)
ChartFromCell(chart_json) ==
    IF IsRaise(chart_json) THEN chart_json
    ELSE IF ~IsContainer(chart_json) THEN Raise("TypeError")
    ELSE IF Contains(chart_json, "plotly_json", TextsContainingPlotlyJson)
         THEN chart_json
         ELSE None

(* json.loads(cell), cell being data["rows"][0][0] *)
DecodeCell(cell) ==
    IF IsRaise(cell) THEN cell ELSE JsonLoads(cell)

(* `if data["rows"] and data["rows"][0]:` and the statements under it *)
ChartFromRows(rows, row0) ==
    IF ~Truthy(rows) THEN None
    ELSE IF IsRaise(row0) THEN row0
    ELSE IF ~Truthy(row0) THEN None
    ELSE ChartFromCell(DecodeCell(Index0(row0)))

(* Variant: the rows/columns rule is tried before the direct match. *)
ChartFromData_wrapper_first(data) ==
    IF IsRaise(data) THEN data
    ELSE IF ~IsDict(data) THEN None
    ELSE IF HasKey(data, "rows") /\ HasKey(data, "columns")
         THEN ChartFromRows(data.v["rows"], Index0(data.v["rows"]))
    ELSE IF HasKey(data, "plotly_json") THEN data
    ELSE None

(* The statements of _parse_chart_output after data is computed. *)
ChartFromData(data) ==
    IF IsRaise(data) THEN data
    ELSE IF ~IsDict(data) THEN None
    ELSE IF HasKey(data, "plotly_json") THEN data
    ELSE IF HasKey(data, "rows") /\ HasKey(data, "columns")
         THEN ChartFromRows(data.v["rows"], Index0(data.v["rows"]))
         ELSE None

(* `except (json.JSONDecodeError, IndexError, KeyError, TypeError)` *)
ChartCaught == {"JSONDecodeError", "IndexError", "KeyError", "TypeError"}

CatchChart(body) ==
    IF IsRaise(body) /\ body.exc \in ChartCaught THEN None ELSE body

(* _parse_chart_output *)
ParseChartOutput(output_str) ==
    CatchChart(ChartFromData(DecodeIfStr(output_str)))

(* The print after charts.append(chart): chart.get('chart_type', 'unknown') *)
(* needs a mapping.                                                        *)
PrintFoundChart(chart) ==
    IF IsDict(chart) THEN None ELSE Raise("AttributeError")

(* _extract_charts: the loop from item i on, charts collected so far. *)
RECURSIVE ChartsFrom(_, _, _)
ChartsStep(arr, i, charts, chart) ==
    IF IsRaise(chart) THEN chart
    ELSE IF ~Truthy(chart) THEN ChartsFrom(arr, i + 1, charts)
    ELSE IF IsRaise(PrintFoundChart(chart)) THEN PrintFoundChart(chart)
    ELSE ChartsFrom(arr, i + 1, Append(charts, chart))

ChartsFrom(arr, i, charts) ==
    IF i > Len(arr) THEN List(charts)
    ELSE IF ~IsDict(arr[i]) THEN Raise("AttributeError")
    ELSE IF Get(arr[i], "type", None) # Str("function_call_output")
         THEN ChartsFrom(arr, i + 1, charts)
    ELSE ChartsStep(arr, i, charts,
                    ParseChartOutput(Get(arr[i], "output", Str(""))))

ExtractCharts(arr) == ChartsFrom(arr, 1, <<>>)

(* [[val["string_value"] for val in row["values"]] for row in it] *)
RowsOfEach(it) ==
    IF IsRaise(it) THEN it
    ELSE CollectList([i \in DOMAIN it.v |->
                        ListOfField(Index(it.v[i], "values"), "string_value")])

DataRows(data_array) ==
    IF IsRaise(data_array) THEN data_array ELSE RowsOfEach(Iterate(data_array))

(* Variant: the rows are dropped, only the column names are returned. *)
TableOf_no_rows(columns, data) ==
    IF IsRaise(columns) THEN columns
    ELSE IF IsRaise(data) THEN data
    ELSE Map([data |-> List(<<>>), columns |-> columns])

(* return {"data": data, "columns": columns}, unless computing one of them *)
(* raised.                                                                 *)
TableOf(columns, data) ==
    IF IsRaise(columns) THEN columns
    ELSE IF IsRaise(data) THEN data
    ELSE Map([data |-> data, columns |-> columns])

(* `except (KeyError, TypeError)` of _transform_genie_response *)
TransformCaught == {"KeyError", "TypeError"}

CatchTransform(body) ==
    IF IsRaise(body) /\ body.exc \in TransformCaught THEN None ELSE body

(* _transform_genie_response.  Every subscript of the try body raises only *)
(* KeyError or TypeError, which the handler treats alike, so the two paths *)
(* are followed one after the other.                                       *)
TransformGenieResponse(genie_response) ==
    CatchTransform(
        TableOf(ListOfField(IndexPath(genie_response,
                                <<"statement_response", "manifest", "schema",
                                  "columns">>), "name"),
                DataRows(IndexPath(genie_response,
                                <<"statement_response", "result",
                                  "data_array">>))))

(* The statements of _parse_genie_output after content_data is computed. *)
TableFromContent(content_data) ==
    IF IsRaise(content_data) THEN content_data
    ELSE IF ~IsContainer(content_data) THEN Raise("TypeError")
    ELSE IF ~Contains(content_data, "statement_response",
                      TextsContainingStatementResponse) THEN None
    ELSE TransformGenieResponse(content_data)

(* The statements of _parse_genie_output after data is computed. *)
TableFromData(data) ==
    IF IsRaise(data) THEN data
    ELSE IF ~IsDict(data) \/ ~HasKey(data, "content") THEN None
    ELSE TableFromContent(DecodeIfStr(data.v["content"]))

(* `except (json.JSONDecodeError, KeyError, TypeError)` of _parse_genie_output *)
GenieCaught == {"JSONDecodeError", "KeyError", "TypeError"}

CatchGenie(body) ==
    IF IsRaise(body) /\ body.exc \in GenieCaught THEN None ELSE body

(* _parse_genie_output *)
ParseGenieOutput(output_str) ==
    CatchGenie(TableFromData(DecodeIfStr(output_str)))

(* _extract_genie_table: the loop from item i on; the first truthy parser  *)
(* result is returned.                                                     *)
RECURSIVE TableFrom(_, _)
(* Variant: the scan does not stop at the first table, a later one         *)
(* replaces it.                                                            *)
TableStep_last(arr, i, table) ==
    IF IsRaise(table) THEN table
    ELSE IF TableFrom(arr, i + 1) # None THEN TableFrom(arr, i + 1)
    ELSE IF Truthy(table) THEN table
    ELSE None

TableStep(arr, i, table) ==
    IF IsRaise(table) THEN table
    ELSE IF Truthy(table) THEN table
    ELSE TableFrom(arr, i + 1)

TableFrom(arr, i) ==
    IF i > Len(arr) THEN None
    ELSE IF ~IsDict(arr[i]) THEN Raise("AttributeError")
    ELSE IF Get(arr[i], "type", None) # Str("function_call_output")
         THEN TableFrom(arr, i + 1)
    ELSE TableStep(arr, i, ParseGenieOutput(Get(arr[i], "output", Str(""))))

ExtractGenieTable(arr) == TableFrom(arr, 1)

(* Variant: the charts and the table of the function_call_output items    *)
(* are used when the embedded document has none.                           *)
ShortCircuitResult_merged(parsed_data, arr) ==
    Map([response |-> Get(parsed_data, "response", Str("")),
         messages |-> List(arr),
         charts |-> Get(parsed_data, "charts", ExtractCharts(arr)),
         table_data |-> Get(parsed_data, "table_data", ExtractGenieTable(arr)),
         error |-> Get(parsed_data, "error", None)])

(* The dictionary returned on the JSON-encoded response format. *)
ShortCircuitResult(parsed_data, arr) ==
    Map([response |-> Get(parsed_data, "response", Str("")),
         messages |-> List(arr),
         charts |-> Get(parsed_data, "charts", List(<<>>)),
         table_data |-> Get(parsed_data, "table_data", None),
         error |-> Get(parsed_data, "error", None)])

(* The dictionary returned by standard parsing; its values are evaluated   *)
(* in order, so the first exception among them leaves the function.        *)
StandardDict(arr, summary, charts, table) ==
    IF IsRaise(summary) THEN summary
    ELSE IF IsRaise(charts) THEN charts
    ELSE IF IsRaise(table) THEN table
    ELSE Map([response |-> summary,
              messages |-> List(arr),
              charts |-> charts,
              table_data |-> table,
              error |-> None])

StandardResult(arr) ==
    StandardDict(arr, ExtractSummary(arr), ExtractCharts(arr),
                 ExtractGenieTable(arr))

(* Variant: the embedded document is never recognised. *)
IsResponseDict_never(parsed_data) == FALSE

(* `isinstance(parsed_data, dict) and "response" in parsed_data`, for the  *)
(* parsed_data that json.loads(text_content) returned or the               *)
(* JSONDecodeError it raised (which is passed over).                       *)
IsResponseDict(parsed_data) ==
    ~IsRaise(parsed_data) /\ IsDict(parsed_data) /\ HasKey(parsed_data, "response")

(* The first loop of _parse_agent_response from item i on, then standard   *)
(* parsing.                                                                *)
RECURSIVE ParseFrom(_, _)

(* Variant: a text that starts with `{` and is not a self-describing       *)
(* document ends the first loop.                                           *)
ParseDecoded_stop(arr, i, parsed_data) ==
    IF IsResponseDict(parsed_data) THEN ShortCircuitResult(parsed_data, arr)
    ELSE StandardResult(arr)

(* The try block of the first loop: the decoded text short-circuits when   *)
(* it is a mapping with a `response` key; otherwise, and when it does not  *)
(* decode, the loop goes on with the next item.                            *)
ParseDecoded(arr, i, parsed_data) ==
    IF IsResponseDict(parsed_data) THEN ShortCircuitResult(parsed_data, arr)
    ELSE ParseFrom(arr, i + 1)

ParseStep(arr, i, text_content) ==
    IF ~Truthy(text_content) THEN ParseFrom(arr, i + 1)
    ELSE IF ~IsStr(text_content) THEN Raise("AttributeError")
    ELSE IF StartsWithBrace(text_content)
         THEN ParseDecoded(arr, i, JsonLoads(text_content))
         ELSE ParseFrom(arr, i + 1)

ParseFrom(arr, i) ==
    IF i > Len(arr) THEN StandardResult(arr)
    ELSE IF ~IsDict(arr[i]) THEN Raise("AttributeError")
    ELSE IF Get(arr[i], "type", None) \in {Str("text"), Str("message")}
         THEN ParseStep(arr, i, GetTextFromItem(arr[i]))
         ELSE ParseFrom(arr, i + 1)

(* output_array = raw_response.get("output", []), len(output_array) in the *)
(* print, then the two passes.  A value that is not an array is iterated   *)
(* by its keys or characters; an empty one goes through both passes        *)
(* without an iteration.                                                   *)
ParseOutput(out) ==
    IF IsList(out) THEN ParseFrom(out.v, 1)
    ELSE IF IsRaise(Iterate(out)) THEN Raise("TypeError")
    ELSE IF Truthy(out) THEN ParseFrom(Iterate(out).v, 1)
    ELSE [StandardResult(<<>>) EXCEPT !.v.messages = out]

(* _parse_agent_response *)
ParseAgentResponse(raw) ==
    IF ~IsDict(raw) THEN Raise("AttributeError")
    ELSE ParseOutput(Get(raw, "output", List(<<>>)))

-----------------------------------------------------------------------------
(* query_stream                                                            *)

DATA_PREFIX == "data: "
DELTA_TYPE == Str("response.output_text.delta")

(* The dictionary yielded when the client is not in direct-HTTP mode. *)
error_response_unsupported ==
    Map([response |-> Str("Streaming not supported with MLflow Deployments client"),
         charts |-> List(<<>>),
         table_data |-> None,
         error |-> Str("Use direct HTTP endpoint URL for streaming")])

(* The dictionary yielded when a RequestException e is caught: both the    *)
(* response and the error field carry str(e).                              *)
error_response_transport(e) ==
    Map([response |-> Str("Connection error: " \o e),
         charts |-> List(<<>>),
         table_data |-> None,
         error |-> Str(e)])

(* A transport line, as response.iter_lines() delivers it: the bytes,      *)
(* decoded, are the characters of prefix followed by the text payload.     *)
Line(p, t) == [valid_utf8 |-> TRUE, prefix |-> p, payload |-> t]
BadUtf8Line == [valid_utf8 |-> FALSE, prefix |-> "", payload |-> Str("?")]

(* The inner documents a delta can carry. *)
TraceDoc(step, status) ==
    Map([type |-> Str("trace"), step |-> Str(step), status |-> Str(status)])
FinalDoc(r) == Map([response |-> Str(r)])
FullFinalDoc(r) ==
    Map([response |-> Str(r), charts |-> List(<<>>), table_data |-> None,
         error |-> None])
TraceWithResponseDoc ==
    Map([type |-> Str("trace"), step |-> Str("plan"),
         status |-> Str("completed"), response |-> Str("early")])
OtherDoc == Map([foo |-> Num(1)])
(* a trace whose step is a list, and a final answer whose charts is a      *)
(* number                                                                  *)
TraceListStepDoc ==
    Map([type |-> Str("trace"), step |-> List(<<Str("plan")>>)])
FinalBadChartsDoc == Map([response |-> Str("oops"), charts |-> Num(5)])

(* A response.output_text.delta event whose delta is the value d. *)
DeltaEvent(d) == Map([type |-> DELTA_TYPE, delta |-> d])

InnerDocs ==
    {TraceDoc("plan", "in_progress"), TraceDoc("plan", "completed"),
     TraceDoc("sql", "in_progress"),
     FinalDoc("done"), FullFinalDoc("again"),
     TraceWithResponseDoc, OtherDoc, TraceListStepDoc, FinalBadChartsDoc}

(* The payloads that follow the data prefix on the wire. *)
DataPayloads ==
    {Str("[DONE]"), Str("{bad"), Enc(List(<<Num(1)>>)),
     Enc(Map([type |-> Str("response.created"),
              delta |-> Enc(FinalDoc("ignored"))])),
     Enc(Map([type |-> DELTA_TYPE])),
     Enc(DeltaEvent(Str(""))),
     Enc(DeltaEvent(Str("partial text"))),
     Enc(DeltaEvent(Enc(List(<<Str("response")>>)))),
     Enc(DeltaEvent(Num(7)))}
    \cup {Enc(DeltaEvent(Enc(d))) : d \in InnerDocs}

Lines ==
    {Line("", Str("")), Line("", Str(" ")), BadUtf8Line,
     Line(": ", Str("keep-alive")),
     Line("event: ", Enc(DeltaEvent(Enc(FinalDoc("not data")))))}
    \cup {Line(DATA_PREFIX, t) : t \in DataPayloads}

TransportErrors == {"Read timed out", "503 Server Error"}

(* What handling one line does: skip it, yield a chunk, break out of the   *)
(* loop, or let an exception leave the loop.                               *)
Skip == [act |-> "skip", chunk |-> None, exc |-> ""]
Break == [act |-> "break", chunk |-> None, exc |-> ""]
Yield(c) == [act |-> "yield", chunk |-> c, exc |-> ""]
Throw(e) == [act |-> "raise", chunk |-> None, exc |-> e]

(* `if line:` on the raw bytes *)
LineNonEmpty(line) == ~(line.valid_utf8 /\ line.prefix = "" /\ line.payload = Str(""))

(* `not decoded_line` after line.decode('utf-8').strip() *)
StrippedEmpty(line) == line.prefix = "" /\ line.payload \in {Str(""), Str(" ")}

(* decoded_line.startswith('data: ') *)
HasDataPrefix(line) == line.prefix = DATA_PREFIX

(* Variant: the [DONE] test never matches. *)
IsDoneMarker_never(json_str) == FALSE

(* json_str == '[DONE]' *)
IsDoneMarker(json_str) == json_str = Str("[DONE]")

(* Variant: every mapping is yielded, whatever its keys. *)
ClassifyObj_any(obj) ==
    IF ~IsDict(obj) THEN Throw("AttributeError") ELSE Yield(JsonDumps(obj))

(* The statements after obj = json.loads(delta): the trace test comes      *)
(* first, the final-response test second; obj.get on a document that is    *)
(* not a mapping raises AttributeError.                                    *)
ClassifyObj(obj) ==
    IF ~IsDict(obj) THEN Throw("AttributeError")
    ELSE IF Get(obj, "type", None) = Str("trace") THEN Yield(JsonDumps(obj))
    ELSE IF HasKey(obj, "response") THEN Yield(JsonDumps(obj))
    ELSE Skip

(* The innermost try: a delta that is not JSON is passed over. *)
DeltaTry(delta) ==
    LET obj == JsonLoads(delta)
        body == IF IsRaise(obj) THEN Throw(obj.exc) ELSE ClassifyObj(obj)
    IN  IF body.act = "raise" /\ body.exc = "JSONDecodeError" THEN Skip ELSE body

(* The statements after chunk_data = json.loads(json_str). *)
ChunkBody(chunk_data) ==
    IF ~IsDict(chunk_data) THEN Throw("AttributeError")
    ELSE IF Get(chunk_data, "type", None) = DELTA_TYPE
         THEN LET delta == Get(chunk_data, "delta", Str(""))
              IN  IF Truthy(delta) THEN DeltaTry(delta) ELSE Skip
         ELSE Skip

(* Variant: a malformed top-level payload ends the loop. *)
OnTopLevelDecodeError_break(json_str) == Break

(* `except json.JSONDecodeError as e:` of the middle try: what a malformed *)
(* top-level payload results in (the error is printed, then `continue`).   *)
OnTopLevelDecodeError(json_str) == Skip

(* The middle try around the top-level json.loads. *)
ChunkTry(json_str) ==
    LET chunk_data == JsonLoads(json_str)
    IN  IF IsRaise(chunk_data)
        THEN IF chunk_data.exc = "JSONDecodeError"
             THEN OnTopLevelDecodeError(json_str)
             ELSE Throw(chunk_data.exc)
        ELSE ChunkBody(chunk_data)

(* The body of the outer per-line try. *)
LineBody(line) ==
    IF ~line.valid_utf8 THEN Throw("UnicodeDecodeError")
    ELSE IF StrippedEmpty(line) THEN Skip
    ELSE IF HasDataPrefix(line)
         THEN IF IsDoneMarker(line.payload) THEN Break
              ELSE ChunkTry(line.payload)
         ELSE Skip

(* Variant: no outer handler, the exception leaves the loop. *)
OnLineException_propagate(e) == Throw(e)

(* `except Exception as e:` of the outer per-line try: the error is        *)
(* printed and the loop continues with the next line.                      *)
OnLineException(e) == Skip

(* One iteration of `for line in response.iter_lines()`. *)
LineOutcome(line) ==
    IF ~LineNonEmpty(line) THEN Skip
    ELSE LET body == LineBody(line)
         IN  IF body.act = "raise" THEN OnLineException(body.exc) ELSE body

(* What the generator does after a yielded final response: the code has no *)
(* break or return there, so the loop goes on to the next line.            *)
AfterYield(chunk) == "iter"

-----------------------------------------------------------------------------
(* The generator as a state machine.  pc is its position:                  *)
(*   "start"  not yet started          "iter"  in the for loop             *)
(*   "done"   returned                 "raised" left by an exception       *)

(* A call that has not returned yet has the result Pending. *)
Pending == [k |-> "pending"]

(* The values of the variables of an operation that is not running. *)
StreamIdle ==
    /\ use_direct_http = TRUE
    /\ pc = "idle"
    /\ posted = FALSE
    /\ failure = ""
    /\ linesRead = <<>>
    /\ events = <<>>
    /\ origin = <<>>

ParseIdle == raw_response = None /\ result = None

ItemIdle ==
    item_output = None /\ parsed_chart = Pending /\ parsed_table = Pending

ChatIdle == chat_result = Pending

UIIdle ==
    /\ ui_pc = "idle"
    /\ consumed = <<>>
    /\ trace_order = <<>>
    /\ active_traces = <<>>
    /\ final_response = None

FetchIdle ==
    /\ remote = <<>>
    /\ space_pc = <<>>
    /\ conv_pending = <<>>
    /\ space_results = <<>>
    /\ results = <<>>
    /\ fetch_pc = "idle"
    /\ listing_error = <<>>

PairIdle == streams = <<>>

TurnIdle == session_messages = <<>> /\ is_processing = FALSE

StreamInit ==
    /\ use_direct_http \in BOOLEAN
    /\ pc = "start"
    /\ posted = FALSE
    /\ failure = ""
    /\ linesRead = <<>>
    /\ events = <<>>
    /\ origin = <<>>
    /\ ParseIdle
    /\ ItemIdle /\ ChatIdle /\ UIIdle /\ FetchIdle /\ PairIdle /\ TurnIdle

(* Variant: the error response is yielded but the `return` is missing, so  *)
(* the generator goes on to open the request.                              *)
Unsupported_no_return ==
    /\ pc = "start"
    /\ ~use_direct_http
    /\ events' = Append(events, JsonDumps(error_response_unsupported))
    /\ origin' = Append(origin, 0)
    /\ posted' = TRUE
    /\ pc' = "iter"
    /\ UNCHANGED <<use_direct_http, failure, linesRead, raw_response, result>>
    /\ UNCHANGED <<itemVars, chatVars, uiVars, fetchVars, pairVars, turnVars>>

(* not self.use_direct_http: yield the error response and return. *)
Unsupported ==
    /\ pc = "start"
    /\ ~use_direct_http
    /\ events' = Append(events, JsonDumps(error_response_unsupported))
    /\ origin' = Append(origin, 0)
    /\ pc' = "done"
    /\ UNCHANGED <<use_direct_http, posted, failure, linesRead, raw_response, result>>
    /\ UNCHANGED <<itemVars, chatVars, uiVars, fetchVars, pairVars, turnVars>>

(* requests.post returns and raise_for_status passes. *)
PostOk ==
    /\ pc = "start"
    /\ use_direct_http
    /\ posted' = TRUE
    /\ pc' = "iter"
    /\ UNCHANGED <<use_direct_http, failure, linesRead, events, origin, raw_response,
                   result>>
    /\ UNCHANGED <<itemVars, chatVars, uiVars, fetchVars, pairVars, turnVars>>

(* requests.post or raise_for_status raises a RequestException e. *)
PostFail(e) ==
    /\ pc = "start"
    /\ use_direct_http
    /\ posted' = TRUE
    /\ failure' = e
    /\ events' = Append(events, JsonDumps(error_response_transport(e)))
    /\ origin' = Append(origin, 0)
    /\ pc' = "done"
    /\ UNCHANGED <<use_direct_http, linesRead, raw_response, result>>
    /\ UNCHANGED <<itemVars, chatVars, uiVars, fetchVars, pairVars, turnVars>>

(* iter_lines delivers a line and the loop body handles it. *)
ReadLine(line) ==
    /\ pc = "iter"
    /\ Len(linesRead) < MaxLines
    /\ linesRead' = Append(linesRead, line)
    /\ LET out == LineOutcome(line)
       IN  /\ events' = IF out.act = "yield" THEN Append(events, out.chunk)
                        ELSE events
           /\ origin' = IF out.act = "yield"
                        THEN Append(origin, Len(linesRead) + 1)
                        ELSE origin
           /\ pc' = CASE out.act = "break" -> "done"
                      [] out.act = "raise" -> "raised"
                      [] out.act = "yield" -> AfterYield(out.chunk)
                      [] OTHER -> "iter"
    /\ UNCHANGED <<use_direct_http, posted, failure, raw_response, result>>
    /\ UNCHANGED <<itemVars, chatVars, uiVars, fetchVars, pairVars, turnVars>>

(* iter_lines raises a RequestException e while waiting for a line. *)
IterFail(e) ==
    /\ pc = "iter"
    /\ failure' = e
    /\ events' = Append(events, JsonDumps(error_response_transport(e)))
    /\ origin' = Append(origin, 0)
    /\ pc' = "done"
    /\ UNCHANGED <<use_direct_http, posted, linesRead, raw_response, result>>
    /\ UNCHANGED <<itemVars, chatVars, uiVars, fetchVars, pairVars, turnVars>>

(* iter_lines is exhausted: the loop ends and the generator returns. *)
Exhausted ==
    /\ pc = "iter"
    /\ pc' = "done"
    /\ UNCHANGED <<use_direct_http, posted, failure, linesRead, events, origin,
                   raw_response, result>>
    /\ UNCHANGED <<itemVars, chatVars, uiVars, fetchVars, pairVars, turnVars>>

Next ==
    \/ Unsupported
    \/ PostOk
    \/ \E e \in TransportErrors : PostFail(e)
    \/ \E line \in Lines : ReadLine(line)
    \/ \E e \in TransportErrors : IterFail(e)
    \/ Exhausted

Spec == StreamInit /\ [][Next]_vars

-----------------------------------------------------------------------------
(* Inputs of _parse_agent_response.                                        *)

TextItem(t) == Map([type |-> Str("text"), text |-> t])
MessageItem(c) == Map([type |-> Str("message"), content |-> c])
OutputItem(o) == Map([type |-> Str("function_call_output"), output |-> o])

Chart(t) ==
    Map([plotly_json |-> Map([data |-> List(<<>>)]), chart_type |-> Str(t)])

(* {"rows": [[cell]], "columns": ["chart"]} *)
Wrapper(rows) == Map([rows |-> rows, columns |-> List(<<Str("chart")>>)])

Column(n) == Map([name |-> Str(n)])
Cell(x) == Map([string_value |-> x])
Row(cells) == Map([values |-> List(cells)])

(* {"statement_response": {"result": {"data_array": rows},                 *)
(*                         "manifest": {"schema": {"columns": cols}}}}     *)
Genie(cols, rows) ==
    Map([statement_response |->
           Map([result |-> Map([data_array |-> List(rows)]),
                manifest |-> Map([schema |-> Map([columns |-> List(cols)])])])])

Genie1 == Genie(<<Column("region"), Column("total")>>,
                <<Row(<<Cell(Str("EU")), Cell(Str("10"))>>)>>)
Genie2 == Genie(<<Column("title")>>,
                <<Row(<<Cell(Str("Naruto"))>>), Row(<<Cell(Str("Bleach"))>>)>>)
(* a row that is a bare array of cells, without the `values` key *)
GenieBareRow == Genie(<<Column("title")>>, <<List(<<Cell(Str("Naruto"))>>)>>)

SelfX == FullFinalDoc("X")
SelfY == Map([response |-> Str("Y"), charts |-> List(<<Chart("pie")>>)])
SelfW == Map([response |-> Str("W"), error |-> Str("partial")])

TextItems ==
    {TextItem(Str("A")),
     MessageItem(Str("B")),
     MessageItem(List(<<Map([text |-> Str("C")])>>)),
     TextItem(Str("")),
     TextItem(Enc(SelfX)),
     MessageItem(Enc(SelfY)),
     MessageItem(Enc(SelfW)),
     TextItem(Str("{not json")),
     TextItem(Enc(Map([answer |-> Str("Z")]))),
     TextItem(Num(5))}

OutputItems ==
    {OutputItem(Enc(Chart("bar"))),
     OutputItem(Enc(Wrapper(List(<<List(<<Enc(Chart("line"))>>)>>)))),
     OutputItem(Enc(Wrapper(List(<<List(<<Enc(Str("see plotly_json"))>>)>>)))),
     OutputItem(Enc(Wrapper(List(<<>>)))),
     OutputItem(Enc(Map([content |-> Enc(Genie1)]))),
     OutputItem(Map([content |-> Genie2])),
     OutputItem(Enc(Map([content |-> Enc(GenieBareRow)]))),
     OutputItem(Str("tool said hi"))}

OtherItems == {Map([type |-> Str("function_call")]), Str("not a mapping")}

Items == TextItems \cup OutputItems \cup OtherItems

RECURSIVE SeqsUpTo(_, _)
SeqsUpTo(S, n) ==
    IF n = 0 THEN {<<>>}
    ELSE LET shorter == SeqsUpTo(S, n - 1)
         IN  shorter \cup {Append(q, x) : q \in shorter, x \in S}

RawResponses ==
    {Map([object |-> Str("response"), output |-> List(arr)]) :
        arr \in SeqsUpTo(Items, MaxItems)}
    \cup {Map([object |-> Str("response")])}

ParseInit ==
    /\ raw_response \in RawResponses
    /\ result = None
    /\ StreamIdle
    /\ ItemIdle /\ ChatIdle /\ UIIdle /\ FetchIdle /\ PairIdle /\ TurnIdle

(* A call of _parse_agent_response(raw_response). *)
CallParseAgentResponse ==
    /\ result = None
    /\ raw_response # None
    /\ result' = ParseAgentResponse(raw_response)
    /\ UNCHANGED <<raw_response, use_direct_http, pc, posted, failure,
                   linesRead, events, origin>>
    /\ UNCHANGED <<itemVars, chatVars, uiVars, fetchVars, pairVars, turnVars>>

ParseNext == CallParseAgentResponse

SpecParse == ParseInit /\ [][ParseNext]_vars

-----------------------------------------------------------------------------
(* Inputs of _parse_chart_output and _parse_genie_output: the `output` of  *)
(* one function_call_output item.                                          *)

MaxCells == 2

(* {} *)
EmptyMap == Map([x \in {} |-> None])

(* What the first cell of a wrapper row can hold. *)
ChartCells ==
    {Enc(Chart("line")),
     Enc(Map([title |-> Str("t")])),
     Enc(Str("see plotly_json")),
     Enc(List(<<Str("plotly_json")>>)),
     Enc(Num(1)),
     Str("{bad"),
     Str(""),
     Chart("line"),
     Num(3)}

(* What the `rows` key of a wrapper can hold. *)
ChartRows ==
    {List(<<List(cells)>>) : cells \in SeqsUpTo(ChartCells, MaxCells)}
    \cup {List(<<List(cells), List(<<Enc(Chart("bar"))>>)>>) :
             cells \in SeqsUpTo(ChartCells, 1)}
    \cup {List(<<>>), Str("rows"), Str(""), Num(2), Num(0), None,
          Map([a |-> Num(1)]), List(<<Str("row")>>), List(<<Num(4)>>),
          List(<<None>>), List(<<Map([a |-> Num(1)])>>)}

(* A document with both shapes: a top-level plotly_json and rows/columns. *)
BothShapes(t, rows) ==
    Map([plotly_json |-> Map([data |-> List(<<>>)]), chart_type |-> Str(t),
         rows |-> rows, columns |-> List(<<Str("chart")>>)])

ChartDocs ==
    {Chart("bar"), Chart("line")}
    \cup {Map([plotly_json |-> v]) :
             v \in {None, Str("fig"), Map([data |-> List(<<>>)])}}
    \cup {BothShapes("bar", rows) :
             rows \in {List(<<List(<<Enc(Chart("line"))>>)>>), List(<<>>), Num(2)}}
    \cup {Wrapper(rows) : rows \in ChartRows}
    \cup {Map([rows |-> List(<<List(<<Enc(Chart("line"))>>)>>)]),
          Map([title |-> Str("t")]), EmptyMap}

(* The statement_response document with the given `columns` and            *)
(* `data_array` values.                                                    *)
GenieOf(columns, data_array) ==
    Map([statement_response |->
           Map([result |-> Map([data_array |-> data_array]),
                manifest |-> Map([schema |-> Map([columns |-> columns])])])])

GenieCells == {Cell(Str("1")), Cell(Num(5)), Map([value |-> Str("1")])}

GoodRow == Row(<<Cell(Str("EU")), Cell(Str("10"))>>)

GenieRows ==
    {Row(cells) : cells \in SeqsUpTo(GenieCells, MaxCells)}
    \cup {List(<<Cell(Str("1"))>>), Map([cells |-> List(<<Cell(Str("1"))>>)]),
          Map([values |-> None]), Map([values |-> Str("ab")]),
          Map([values |-> EmptyMap]), Str("row"),
          Row(<<Cell(None)>>), Row(<<Str("raw")>>)}

DataArrays ==
    {List(<<>>)}
    \cup {List(<<r>>) : r \in GenieRows}
    \cup {List(<<GoodRow, r>>) : r \in GenieRows}
    \cup {List(<<r, GoodRow>>) : r \in GenieRows}
    \cup {EmptyMap, Map([a |-> Num(1)]), Str(""), Str("rows"), None, Num(3)}

ColumnLists ==
    {List(cols) :
        cols \in SeqsUpTo({Column("a"), Column("b"), Map([label |-> Str("a")])},
                          MaxCells)}
    \cup {None, Str(""), Str("ab"), EmptyMap, List(<<Str("a")>>)}

(* What the `content` key can hold once decoded. *)
ContentDocs ==
    {GenieOf(columns, data_array) :
        columns \in ColumnLists, data_array \in DataArrays}
    \cup {Map([statement_response |-> v]) :
             v \in {None, Str("text"), EmptyMap,
                    Map([result |-> Map([data_array |-> List(<<GoodRow>>)])]),
                    Map([manifest |->
                           Map([schema |-> Map([columns |-> List(<<Column("a")>>)])])]),
                    Map([result |-> Map([data_array |-> List(<<GoodRow>>)]),
                         manifest |-> EmptyMap]),
                    Map([result |-> None,
                         manifest |->
                           Map([schema |-> Map([columns |-> List(<<Column("a")>>)])])])}}
    \cup {Map([message |-> Str("no rows")]), EmptyMap,
          List(<<Str("statement_response")>>), Num(1), None}

GenieDocs ==
    {Map([content |-> c]) : c \in ContentDocs}
    \cup {Map([content |-> Enc(c)]) : c \in ContentDocs}
    \cup {Map([content |-> c]) :
             c \in {Str("no statement_response here"), Str("{bad"), Str(""),
                    Enc(Str("no statement_response here"))}}

ItemOutputs ==
    LET docs == ChartDocs \cup GenieDocs
                  \cup {List(<<Chart("bar")>>), Num(1), None}
    IN  docs \cup {Enc(d) : d \in docs}
             \cup {Str("not json"), Str(""), Str("{bad"),
                   Enc(Str("see plotly_json"))}

ItemInit ==
    /\ item_output \in ItemOutputs
    /\ parsed_chart = Pending
    /\ parsed_table = Pending
    /\ StreamIdle /\ ParseIdle /\ ChatIdle /\ UIIdle /\ FetchIdle /\ PairIdle /\ TurnIdle

(* A call of _parse_chart_output(item_output). *)
CallParseChartOutput ==
    /\ parsed_chart = Pending
    /\ parsed_chart' = ParseChartOutput(item_output)
    /\ UNCHANGED <<item_output, parsed_table>>
    /\ UNCHANGED <<streamVars, parseVars, chatVars, uiVars, fetchVars, pairVars, turnVars>>

(* A call of _parse_genie_output(item_output). *)
CallParseGenieOutput ==
    /\ parsed_table = Pending
    /\ parsed_table' = ParseGenieOutput(item_output)
    /\ UNCHANGED <<item_output, parsed_chart>>
    /\ UNCHANGED <<streamVars, parseVars, chatVars, uiVars, fetchVars, pairVars, turnVars>>

ItemNext == CallParseChartOutput \/ CallParseGenieOutput

SpecItem == ItemInit /\ [][ItemNext]_vars

-----------------------------------------------------------------------------
(* chat: one transport call, then _parse_agent_response, all inside        *)
(* `try ... except Exception`.  pc is its position:                        *)
(*   "chat_start"  before the transport call                               *)
(*   "chat_parse"  response_data received                                  *)
(*   "chat_done"   returned (chat_result holds the value)                  *)
(* The request payload (custom_inputs, session id) does not influence the  *)
(* result and is left out.                                                 *)

(* str(e) of the exceptions the transport call can raise: requests.post,   *)
(* raise_for_status, response.json() or deploy_client.predict.             *)
ChatErrors ==
    TransportErrors \cup {"Expecting value: line 1 column 1 (char 0)", ""}

(* The dictionary returned by the handler; error_msg carries str(e). *)
ChatErrorResult(e) ==
    Map([response |-> None,
         messages |-> List(<<>>),
         charts |-> List(<<>>),
         table_data |-> None,
         error |-> Str("Error calling agent endpoint: " \o e)])

(* The print after parsing: len(result.get('charts', [])) needs a sized    *)
(* value.                                                                  *)
PrintParsed(parsed) ==
    IF IsRaise(parsed) THEN parsed
    ELSE IF IsContainer(Get(parsed, "charts", List(<<>>))) THEN parsed
    ELSE Raise("TypeError")

(* Variant: the handler lets the exception through. *)
OnChatException_reraise(e) == Raise(e)

(* `except Exception as e:` of chat; str(e) of an exception raised by the  *)
(* extraction is represented by the name of its class.                     *)
OnChatException(e) == ChatErrorResult(e)

(* The statements of the try body after response_data is received. *)
ChatBody(response_data) == PrintParsed(ParseAgentResponse(response_data))

ChatReturn(body) ==
    IF IsRaise(body) THEN OnChatException(body.exc) ELSE body

(* What the endpoint can answer: the payloads of _parse_agent_response and *)
(* payloads of other shapes.                                               *)
ChatResponses ==
    RawResponses
    \cup {Map([output |-> out]) :
             out \in {None, Num(3), Str(""), Str("abc"), EmptyMap,
                      Map([type |-> Str("text")]),
                      List(<<TextItem(Enc(Map([response |-> Str("X"),
                                               charts |-> None])))>>),
                      List(<<TextItem(Enc(Map([response |-> Str("X"),
                                               charts |-> Num(2)])))>>),
                      List(<<TextItem(Enc(Map([response |-> None])))>>)}}
    \cup {List(<<TextItem(Str("A"))>>), Str("Internal Server Error"), Num(0), None}

ChatInit ==
    /\ use_direct_http \in BOOLEAN
    /\ pc = "chat_start"
    /\ posted = FALSE
    /\ failure = ""
    /\ linesRead = <<>>
    /\ events = <<>>
    /\ origin = <<>>
    /\ ParseIdle
    /\ chat_result = Pending
    /\ ItemIdle /\ UIIdle /\ FetchIdle /\ PairIdle /\ TurnIdle

(* The transport call returns response_data. *)
ChatTransportOk(response_data) ==
    /\ pc = "chat_start"
    /\ posted' = use_direct_http
    /\ raw_response' = response_data
    /\ pc' = "chat_parse"
    /\ UNCHANGED <<use_direct_http, failure, linesRead, events, origin, result,
                   chat_result>>
    /\ UNCHANGED <<itemVars, uiVars, fetchVars, pairVars, turnVars>>

(* The transport call raises an exception whose str is e. *)
ChatTransportFail(e) ==
    /\ pc = "chat_start"
    /\ posted' = use_direct_http
    /\ failure' = e
    /\ chat_result' = OnChatException(e)
    /\ pc' = "chat_done"
    /\ UNCHANGED <<use_direct_http, linesRead, events, origin, raw_response, result>>
    /\ UNCHANGED <<itemVars, uiVars, fetchVars, pairVars, turnVars>>

(* result = self._parse_agent_response(response_data), the print, and the  *)
(* return of the result or of the handler's dictionary.                    *)
ChatParse ==
    /\ pc = "chat_parse"
    /\ result' = ParseAgentResponse(raw_response)
    /\ chat_result' = ChatReturn(ChatBody(raw_response))
    /\ pc' = "chat_done"
    /\ UNCHANGED <<use_direct_http, posted, failure, linesRead, events, origin,
                   raw_response>>
    /\ UNCHANGED <<itemVars, uiVars, fetchVars, pairVars, turnVars>>

ChatNext ==
    \/ /\ pc = "chat_start"
       /\ \E response_data \in ChatResponses : ChatTransportOk(response_data)
    \/ \E e \in ChatErrors : ChatTransportFail(e)
    \/ ChatParse

SpecChat == ChatInit /\ [][ChatNext]_vars

-----------------------------------------------------------------------------
(* The consume loop of the chat input handler (src/app.py): a `for` over   *)
(* agent.query_stream(...).  The generator runs only while the loop asks   *)
(* for the next chunk.  ui_pc is the position of the handler:              *)
(*   "loop"    in the for loop                                             *)
(*   "after"   past the loop (break, or the generator returned)            *)
(*   "failed"  an exception left the loop (caught by the outer try)        *)

(* Whether a value can be a dictionary key (`step not in active_traces`). *)
Hashable(x) == ~IsDict(x) /\ ~IsList(x)

(* Variant: no break after the final response is stored. *)
AfterFinalResponse_no_break == "loop"

(* The `break` after final_response = chunk_obj. *)
AfterFinalResponse == "after"

UIInit ==
    /\ use_direct_http \in BOOLEAN
    /\ pc = "start"
    /\ posted = FALSE
    /\ failure = ""
    /\ linesRead = <<>>
    /\ events = <<>>
    /\ origin = <<>>
    /\ ui_pc = "loop"
    /\ consumed = <<>>
    /\ trace_order = <<>>
    /\ active_traces = <<>>
    /\ final_response = None
    /\ ParseIdle /\ ItemIdle /\ ChatIdle /\ FetchIdle /\ PairIdle /\ TurnIdle

(* The loop asks the generator for the next chunk: the generator takes one *)
(* of its steps.                                                           *)
Pulling == ui_pc = "loop" /\ Len(consumed) = Len(events) /\ pc \in {"start", "iter"}

UIPull ==
    /\ Pulling
    /\ \/ Unsupported
       \/ PostOk
       \/ \E e \in TransportErrors : PostFail(e)
       \/ \E line \in Lines : ReadLine(line)
       \/ \E e \in TransportErrors : IterFail(e)
       \/ Exhausted

(* Variant: the step is appended to trace_order without the test          *)
(* `step not in active_traces`.                                            *)
UITrace_always_append(chunk, chunk_obj, step) ==
    /\ consumed' = Append(consumed, chunk)
    /\ IF Hashable(step)
       THEN /\ trace_order' = Append(trace_order, step)
            /\ active_traces' =
                   [s \in DOMAIN active_traces \cup {step} |->
                       IF s = step THEN chunk_obj ELSE active_traces[s]]
            /\ ui_pc' = "loop"
       ELSE /\ ui_pc' = "failed"
            /\ UNCHANGED <<trace_order, active_traces>>
    /\ UNCHANGED final_response

(* The trace branch: trace_order and active_traces are updated and all     *)
(* active traces are rendered.                                             *)
UITrace(chunk, chunk_obj, step) ==
    /\ consumed' = Append(consumed, chunk)
    /\ IF Hashable(step)
       THEN /\ trace_order' = IF step \in DOMAIN active_traces THEN trace_order
                              ELSE Append(trace_order, step)
            /\ active_traces' =
                   [s \in DOMAIN active_traces \cup {step} |->
                       IF s = step THEN chunk_obj ELSE active_traces[s]]
            /\ ui_pc' = "loop"
       ELSE /\ ui_pc' = "failed"
            /\ UNCHANGED <<trace_order, active_traces>>
    /\ UNCHANGED final_response

(* Variant: the `response` test of the loop body comes before the trace    *)
(* test.                                                                   *)
UIConsume_response_first ==
    /\ ui_pc = "loop"
    /\ Len(consumed) < Len(events)
    /\ LET chunk == events[Len(consumed) + 1]
           chunk_obj == JsonLoads(chunk)
       IN  IF IsRaise(chunk_obj)
           THEN /\ consumed' = Append(consumed, chunk)
                /\ ui_pc' = IF chunk_obj.exc = "JSONDecodeError" THEN "loop"
                            ELSE "failed"
                /\ UNCHANGED <<trace_order, active_traces, final_response>>
           ELSE IF ~IsDict(chunk_obj)
           THEN /\ consumed' = Append(consumed, chunk)
                /\ ui_pc' = "failed"
                /\ UNCHANGED <<trace_order, active_traces, final_response>>
           ELSE IF HasKey(chunk_obj, "response")
           THEN /\ consumed' = Append(consumed, chunk)
                /\ final_response' = chunk_obj
                /\ ui_pc' = AfterFinalResponse
                /\ UNCHANGED <<trace_order, active_traces>>
           ELSE IF Get(chunk_obj, "type", None) = Str("trace")
           THEN UITrace(chunk, chunk_obj, Get(chunk_obj, "step", None))
           ELSE /\ consumed' = Append(consumed, chunk)
                /\ UNCHANGED <<ui_pc, trace_order, active_traces, final_response>>
    /\ UNCHANGED <<streamVars, parseVars, itemVars, chatVars, fetchVars, pairVars, turnVars>>

(* The body of the loop for the chunk the generator has just yielded. *)
UIConsume ==
    /\ ui_pc = "loop"
    /\ Len(consumed) < Len(events)
    /\ LET chunk == events[Len(consumed) + 1]
           chunk_obj == JsonLoads(chunk)
       IN  IF IsRaise(chunk_obj)
           THEN /\ consumed' = Append(consumed, chunk)
                /\ ui_pc' = IF chunk_obj.exc = "JSONDecodeError" THEN "loop"
                            ELSE "failed"
                /\ UNCHANGED <<trace_order, active_traces, final_response>>
           ELSE IF ~IsDict(chunk_obj)
           THEN /\ consumed' = Append(consumed, chunk)
                /\ ui_pc' = "failed"
                /\ UNCHANGED <<trace_order, active_traces, final_response>>
           ELSE IF Get(chunk_obj, "type", None) = Str("trace")
           THEN UITrace(chunk, chunk_obj, Get(chunk_obj, "step", None))
           ELSE IF HasKey(chunk_obj, "response")
           THEN /\ consumed' = Append(consumed, chunk)
                /\ final_response' = chunk_obj
                /\ ui_pc' = AfterFinalResponse
                /\ UNCHANGED <<trace_order, active_traces>>
           ELSE /\ consumed' = Append(consumed, chunk)
                /\ UNCHANGED <<ui_pc, trace_order, active_traces, final_response>>
    /\ UNCHANGED <<streamVars, parseVars, itemVars, chatVars, fetchVars, pairVars, turnVars>>

(* The generator has returned: the loop ends. *)
UILoopEnds ==
    /\ ui_pc = "loop"
    /\ Len(consumed) = Len(events)
    /\ pc \in {"done", "raised"}
    /\ ui_pc' = IF pc = "done" THEN "after" ELSE "failed"
    /\ UNCHANGED <<consumed, trace_order, active_traces, final_response>>
    /\ UNCHANGED <<streamVars, parseVars, itemVars, chatVars, fetchVars, pairVars, turnVars>>

UINext == UIPull \/ UIConsume \/ UILoopEnds

SpecUI == UIInit /\ [][UINext]_vars

-----------------------------------------------------------------------------
(* fetch_past_chats (src/app.py): one fetch_space call per space on a      *)
(* thread pool, inside each a fetch_messages_for_conv call per             *)
(* conversation on a second pool; results are collected with as_completed, *)
(* that is in the order in which the calls finish.                         *)
(*   space_pc[s]: "submitted", "listed" (conversation fetches submitted),  *)
(*                "returned" (fetch_space returned), "collected"           *)
(*   fetch_pc:    "running", "returned"                                    *)

MaxConvs == 2

(* The `spaces` argument: name -> id; a space without id is not fetched. *)
GENIE_SPACES ==
    [s \in {"VOD KPI", "Viewership", "Draft"} |->
        IF s = "Draft" THEN "" ELSE "id of " \o s]

SubmittedSpaces == {s \in DOMAIN GENIE_SPACES : GENIE_SPACES[s] # ""}

(* A message of the API: content and created_timestamp (None if missing). *)
Msg(content, created_timestamp) ==
    [content |-> content, created_timestamp |-> created_timestamp]

(* A conversation of the listing: its id ("" if it has none), whether the  *)
(* fetch of its messages succeeds, and the messages.                       *)
Conv(id, ok, messages) == [id |-> id, ok |-> ok, messages |-> messages]

Convs ==
    {Conv("c1", TRUE, <<Msg("q1", Num(300)), Msg("q2", Num(100))>>),
     Conv("c2", TRUE, <<Msg("q3", Num(200))>>),
     Conv("c3", TRUE, <<Msg("", Num(500)), Msg("q4", None)>>),
     Conv("c4", FALSE, <<Msg("q5", Num(400))>>),
     Conv("", TRUE, <<Msg("q6", Num(600))>>)}

Remotes ==
    {[s \in SubmittedSpaces |-> IF s = "VOD KPI" THEN a ELSE b] :
        a \in SeqsUpTo(Convs, MaxConvs),
        b \in {<<>>, <<Conv("c9", TRUE, <<Msg("q9", Num(250)), Msg("q8", Num(300))>>)>>}}

(* msg.get("created_timestamp", 0) or 0 *)
TimestampMs(msg) ==
    IF msg.created_timestamp = None \/ ~Truthy(msg.created_timestamp) THEN 0
    ELSE msg.created_timestamp.v

(* fetch_messages_for_conv: one entry per message with non-empty content,  *)
(* [] when the request fails.                                              *)
RECURSIVE ItemsOf(_, _)
ItemsOf(space_name, messages) ==
    IF messages = <<>> THEN <<>>
    ELSE (IF Head(messages).content # ""
          THEN <<[space_name |-> space_name,
                  query |-> Head(messages).content,
                  timestamp_ms |-> TimestampMs(Head(messages))]>>
          ELSE <<>>)
         \o ItemsOf(space_name, Tail(messages))

FetchMessagesForConv(space_name, conv) ==
    IF conv.ok THEN ItemsOf(space_name, conv.messages) ELSE <<>>

(* list.sort(key=timestamp_ms, reverse=True): a stable sort, entries with  *)
(* equal keys keep their order.                                            *)
RECURSIVE InsertDesc(_, _)
InsertDesc(sorted, x) ==
    IF sorted = <<>> THEN <<x>>
    ELSE IF Head(sorted).timestamp_ms >= x.timestamp_ms
         THEN <<Head(sorted)>> \o InsertDesc(Tail(sorted), x)
         ELSE <<x>> \o sorted

RECURSIVE SortByTimestampDesc(_)
SortByTimestampDesc(s) ==
    IF s = <<>> THEN <<>>
    ELSE InsertDesc(SortByTimestampDesc(SubSeq(s, 1, Len(s) - 1)), s[Len(s)])

(* Variant: the merged list is returned as collected. *)
SortResults_none(merged) == merged

(* results.sort(key=lambda x: x["timestamp_ms"], reverse=True) *)
SortResults(merged) == SortByTimestampDesc(merged)

FetchInit ==
    /\ remote \in Remotes
    /\ space_pc = [s \in SubmittedSpaces |-> "submitted"]
    /\ conv_pending = [s \in SubmittedSpaces |-> {}]
    /\ space_results = [s \in SubmittedSpaces |-> <<>>]
    /\ results = <<>>
    /\ fetch_pc = "running"
    /\ listing_error = [s \in SubmittedSpaces |-> FALSE]
    /\ StreamIdle /\ ParseIdle /\ ItemIdle /\ ChatIdle /\ UIIdle
    /\ PairIdle /\ TurnIdle

(* fetch_space: the listing succeeds and one fetch per conversation that   *)
(* has an id is submitted.                                                 *)
ListConversations(s) ==
    /\ space_pc[s] = "submitted"
    /\ space_pc' = [space_pc EXCEPT ![s] = "listed"]
    /\ conv_pending' =
           [conv_pending EXCEPT ![s] = {i \in DOMAIN remote[s] : remote[s][i].id # ""}]
    /\ UNCHANGED <<remote, space_results, results, fetch_pc, listing_error>>
    /\ UNCHANGED <<streamVars, parseVars, itemVars, chatVars, uiVars, pairVars,
                 turnVars>>

(* fetch_space: the listing fails, the handler returns the empty list. *)
ListFails(s) ==
    /\ space_pc[s] = "submitted"
    /\ space_pc' = [space_pc EXCEPT ![s] = "returned"]
    /\ listing_error' = [listing_error EXCEPT ![s] = TRUE]
    /\ UNCHANGED <<remote, conv_pending, space_results, results, fetch_pc>>
    /\ UNCHANGED <<streamVars, parseVars, itemVars, chatVars, uiVars, pairVars,
                 turnVars>>

(* Variant: a conversation fetch that failed empties space_results.        *)
CollectConv_discard(s, i) ==
    /\ space_pc[s] = "listed"
    /\ i \in conv_pending[s]
    /\ space_results' =
           [space_results EXCEPT
               ![s] = IF remote[s][i].ok
                      THEN @ \o FetchMessagesForConv(s, remote[s][i])
                      ELSE <<>>]
    /\ conv_pending' = [conv_pending EXCEPT ![s] = @ \ {i}]
    /\ UNCHANGED <<remote, space_pc, results, fetch_pc, listing_error>>
    /\ UNCHANGED <<streamVars, parseVars, itemVars, chatVars, uiVars, pairVars,
                 turnVars>>

(* as_completed hands over the fetch of conversation i, which has          *)
(* finished: space_results.extend(f.result()).                             *)
CollectConv(s, i) ==
    /\ space_pc[s] = "listed"
    /\ i \in conv_pending[s]
    /\ space_results' =
           [space_results EXCEPT
               ![s] = @ \o FetchMessagesForConv(s, remote[s][i])]
    /\ conv_pending' = [conv_pending EXCEPT ![s] = @ \ {i}]
    /\ UNCHANGED <<remote, space_pc, results, fetch_pc, listing_error>>
    /\ UNCHANGED <<streamVars, parseVars, itemVars, chatVars, uiVars, pairVars,
                 turnVars>>

(* All conversation fetches are collected: fetch_space returns. *)
SpaceReturns(s) ==
    /\ space_pc[s] = "listed"
    /\ conv_pending[s] = {}
    /\ space_pc' = [space_pc EXCEPT ![s] = "returned"]
    /\ UNCHANGED <<remote, conv_pending, space_results, results, fetch_pc,
                   listing_error>>
    /\ UNCHANGED <<streamVars, parseVars, itemVars, chatVars, uiVars, pairVars,
                 turnVars>>

(* as_completed hands over a finished fetch_space:                         *)
(* results.extend(f.result()).                                             *)
CollectSpace(s) ==
    /\ fetch_pc = "running"
    /\ space_pc[s] = "returned"
    /\ space_pc' = [space_pc EXCEPT ![s] = "collected"]
    /\ results' = results \o space_results[s]
    /\ UNCHANGED <<remote, conv_pending, space_results, fetch_pc, listing_error>>
    /\ UNCHANGED <<streamVars, parseVars, itemVars, chatVars, uiVars, pairVars,
                 turnVars>>

(* All spaces are collected: sort and return. *)
SortAndReturn ==
    /\ fetch_pc = "running"
    /\ \A s \in SubmittedSpaces : space_pc[s] = "collected"
    /\ results' = SortResults(results)
    /\ fetch_pc' = "returned"
    /\ UNCHANGED <<remote, space_pc, conv_pending, space_results, listing_error>>
    /\ UNCHANGED <<streamVars, parseVars, itemVars, chatVars, uiVars, pairVars,
                 turnVars>>

FetchNext ==
    \/ \E s \in SubmittedSpaces : ListConversations(s)
    \/ \E s \in SubmittedSpaces : ListFails(s)
    \/ \E s \in SubmittedSpaces : \E i \in 1..MaxConvs : CollectConv(s, i)
    \/ \E s \in SubmittedSpaces : SpaceReturns(s)
    \/ \E s \in SubmittedSpaces : CollectSpace(s)
    \/ SortAndReturn

SpecFetch == FetchInit /\ [][FetchNext]_vars

-----------------------------------------------------------------------------
(* Two query_stream calls on one client.  query_stream is a generator      *)
(* function: each call has a frame of its own (its response, its position  *)
(* in iter_lines, its locals); the client object they share is only read   *)
(* (endpoint_url, access_token, use_direct_http).                          *)

MaxPairLines == 2

StreamIds == {1, 2}

(* The lines the two responses carry. *)
PairLines ==
    {BadUtf8Line,
     Line(DATA_PREFIX, Str("[DONE]")), Line(DATA_PREFIX, Str("{bad")),
     Line(DATA_PREFIX, Enc(DeltaEvent(Enc(TraceDoc("plan", "in_progress"))))),
     Line(DATA_PREFIX, Enc(DeltaEvent(Enc(FinalDoc("done")))))}

(* The frame of a generator that has not been started. *)
NewFrame == [pc |-> "start", failure |-> "", linesRead |-> <<>>, events |-> <<>>]

(* Variant: the frame is kept on the client, so that it is the frame of    *)
(* every generator of the client.                                          *)
Resume_shared(frames, id, frame) == [j \in DOMAIN frames |-> frame]

(* A generator that is resumed runs in its own frame. *)
Resume(frames, id, frame) == [frames EXCEPT ![id] = frame]

PairInit ==
    /\ use_direct_http \in BOOLEAN
    /\ pc = "idle"
    /\ posted = FALSE
    /\ failure = ""
    /\ linesRead = <<>>
    /\ events = <<>>
    /\ origin = <<>>
    /\ streams = [id \in StreamIds |-> NewFrame]
    /\ ParseIdle /\ ItemIdle /\ ChatIdle /\ UIIdle /\ FetchIdle /\ TurnIdle

(* not self.use_direct_http: yield the error response and return. *)
PairUnsupported(id) ==
    /\ streams[id].pc = "start"
    /\ ~use_direct_http
    /\ streams' =
           Resume(streams, id,
                  [streams[id] EXCEPT
                      !.events = Append(@, JsonDumps(error_response_unsupported)),
                      !.pc = "done"])
    /\ UNCHANGED <<streamVars, parseVars, itemVars, chatVars, uiVars, fetchVars,
                   turnVars>>

(* requests.post returns and raise_for_status passes. *)
PairPostOk(id) ==
    /\ streams[id].pc = "start"
    /\ use_direct_http
    /\ streams' = Resume(streams, id, [streams[id] EXCEPT !.pc = "iter"])
    /\ UNCHANGED <<streamVars, parseVars, itemVars, chatVars, uiVars, fetchVars,
                   turnVars>>

(* requests.post or raise_for_status raises a RequestException e. *)
PairPostFail(id, e) ==
    /\ streams[id].pc = "start"
    /\ use_direct_http
    /\ streams' =
           Resume(streams, id,
                  [streams[id] EXCEPT
                      !.failure = e,
                      !.events = Append(@, JsonDumps(error_response_transport(e))),
                      !.pc = "done"])
    /\ UNCHANGED <<streamVars, parseVars, itemVars, chatVars, uiVars, fetchVars,
                   turnVars>>

(* iter_lines of the generator's response delivers a line and the loop     *)
(* body handles it.                                                        *)
PairReadLine(id, line) ==
    /\ streams[id].pc = "iter"
    /\ Len(streams[id].linesRead) < MaxPairLines
    /\ LET out == LineOutcome(line)
       IN  streams' =
               Resume(streams, id,
                      [streams[id] EXCEPT
                          !.linesRead = Append(@, line),
                          !.events = IF out.act = "yield"
                                     THEN Append(@, out.chunk) ELSE @,
                          !.pc = CASE out.act = "break" -> "done"
                                   [] out.act = "raise" -> "raised"
                                   [] out.act = "yield" -> AfterYield(out.chunk)
                                   [] OTHER -> "iter"])
    /\ UNCHANGED <<streamVars, parseVars, itemVars, chatVars, uiVars, fetchVars,
                   turnVars>>

(* iter_lines raises a RequestException e while waiting for a line. *)
PairIterFail(id, e) ==
    /\ streams[id].pc = "iter"
    /\ streams' =
           Resume(streams, id,
                  [streams[id] EXCEPT
                      !.failure = e,
                      !.events = Append(@, JsonDumps(error_response_transport(e))),
                      !.pc = "done"])
    /\ UNCHANGED <<streamVars, parseVars, itemVars, chatVars, uiVars, fetchVars,
                   turnVars>>

(* iter_lines is exhausted: the loop ends and the generator returns. *)
PairExhausted(id) ==
    /\ streams[id].pc = "iter"
    /\ streams' = Resume(streams, id, [streams[id] EXCEPT !.pc = "done"])
    /\ UNCHANGED <<streamVars, parseVars, itemVars, chatVars, uiVars, fetchVars,
                   turnVars>>

(* The caller stops consuming: the generator is closed where it is          *)
(* suspended (GeneratorExit is not an Exception, no handler catches it).   *)
PairClose(id) ==
    /\ streams[id].pc \in {"start", "iter"}
    /\ streams' = Resume(streams, id, [streams[id] EXCEPT !.pc = "closed"])
    /\ UNCHANGED <<streamVars, parseVars, itemVars, chatVars, uiVars, fetchVars,
                   turnVars>>

PairNext ==
    \E id \in StreamIds :
        \/ PairUnsupported(id)
        \/ PairPostOk(id)
        \/ \E e \in TransportErrors : PairPostFail(id, e)
        \/ \E line \in PairLines : PairReadLine(id, line)
        \/ \E e \in TransportErrors : PairIterFail(id, e)
        \/ PairExhausted(id)
        \/ PairClose(id)

SpecPair == PairInit /\ [][PairNext]_vars

-----------------------------------------------------------------------------
(* One turn of the chat input handler: the prompt is stored, the stream is *)
(* consumed, the answer (or the error) is displayed and stored.            *)

Prompts == {"revenue by region?"}

UserMessage(prompt) ==
    Map([role |-> Str("user"), content |-> Str(prompt), table_data |-> None,
         charts |-> None])

AssistantMessage(content, charts, table_data, sql) ==
    Map([role |-> Str("assistant"), content |-> content, charts |-> charts,
         table_data |-> table_data, sql |-> sql])

(* The welcome message, which an empty conversation is given before the    *)
(* chat input is read.                                                     *)
WelcomeMessage ==
    AssistantMessage(Str("Hi there! Ask me anything about your data to get started."),
                     None, None, None)

NoResponseMessage ==
    AssistantMessage(Str("No response received from agent"), None, None, None)

ErrorMessage(e) ==
    Map([role |-> Str("assistant"), content |-> Str("Error: " \o e),
         table_data |-> None, charts |-> None])

(* The conversation a prompt is submitted to. *)
Histories == {<<WelcomeMessage>>}

(* The display of the final response, up to the message it stores: the     *)
(* charts are enumerated and table_data.get is called outside the inner    *)
(* try blocks, which only guard the drawing of each chart and of the       *)
(* table.                                                                  *)
DisplayFinal(response) ==
    IF ~Truthy(response) THEN NoResponseMessage
    ELSE LET response_text == Get(response, "response", Str(""))
             charts == Get(response, "charts", List(<<>>))
             table_data == Get(response, "table_data", None)
             sql_query == Get(response, "sql", None)
         IN  IF Truthy(charts) /\ IsRaise(Iterate(charts))
             THEN Raise("TypeError")
             ELSE IF Truthy(table_data) /\ ~IsDict(table_data)
             THEN Raise("AttributeError")
             ELSE AssistantMessage(response_text, charts, table_data, sql_query)

(* The session state a turn leaves behind. *)
TurnState(stored, processing) == [messages |-> stored, is_processing |-> processing]

(* Variant: the handler only reports the error. *)
OnTurnException_report_only(stored, e) == TurnState(stored, TRUE)

(* `except Exception as e:` of the handler: the error is displayed, stored *)
(* as the assistant's message, and the processing state is reset.          *)
OnTurnException(stored, e) == TurnState(Append(stored, ErrorMessage(e)), FALSE)

(* The exception that has left the consume loop. *)
LoopException ==
    IF pc = "raised" THEN "Exception"
    ELSE IF IsDict(JsonLoads(consumed[Len(consumed)])) THEN "TypeError"
    ELSE "AttributeError"

TurnInit ==
    /\ use_direct_http \in BOOLEAN
    /\ pc = "start"
    /\ posted = FALSE
    /\ failure = ""
    /\ linesRead = <<>>
    /\ events = <<>>
    /\ origin = <<>>
    /\ UIIdle
    /\ session_messages \in Histories
    /\ is_processing = FALSE
    /\ ParseIdle /\ ItemIdle /\ ChatIdle /\ FetchIdle /\ PairIdle

(* st.chat_input returns a prompt: the user message is stored and the      *)
(* processing state is set.                                                *)
TurnSubmit(prompt) ==
    /\ ui_pc = "idle"
    /\ session_messages' = Append(session_messages, UserMessage(prompt))
    /\ is_processing' = TRUE
    /\ ui_pc' = "loop"
    /\ UNCHANGED <<consumed, trace_order, active_traces, final_response>>
    /\ UNCHANGED <<streamVars, parseVars, itemVars, chatVars, fetchVars, pairVars>>

(* The statements after the loop: the final response, or the notice that   *)
(* there is none, is displayed and stored; an exception raised on the way  *)
(* is handled by the handler's except clause.                              *)
TurnDisplay ==
    /\ ui_pc = "after"
    /\ LET message == DisplayFinal(final_response)
           after == IF IsRaise(message)
                    THEN OnTurnException(session_messages, message.exc)
                    ELSE TurnState(Append(session_messages, message), FALSE)
       IN  /\ session_messages' = after.messages
           /\ is_processing' = after.is_processing
    /\ ui_pc' = "done"
    /\ UNCHANGED <<consumed, trace_order, active_traces, final_response>>
    /\ UNCHANGED <<streamVars, parseVars, itemVars, chatVars, fetchVars, pairVars>>

(* An exception has left the consume loop: the except clause runs. *)
TurnLoopFailed ==
    /\ ui_pc = "failed"
    /\ LET after == OnTurnException(session_messages, LoopException)
       IN  /\ session_messages' = after.messages
           /\ is_processing' = after.is_processing
    /\ ui_pc' = "done"
    /\ UNCHANGED <<consumed, trace_order, active_traces, final_response>>
    /\ UNCHANGED <<streamVars, parseVars, itemVars, chatVars, fetchVars, pairVars>>

TurnNext ==
    \/ \E prompt \in Prompts : TurnSubmit(prompt)
    \/ UIPull
    \/ UIConsume
    \/ UILoopEnds
    \/ TurnDisplay
    \/ TurnLoopFailed

SpecTurn == TurnInit /\ [][TurnNext]_vars

-----------------------------------------------------------------------------
(* Properties of query_stream.                                             *)

(* An event that carries a `response` key. *)
IsFinalAnswer(chunk) == HasKey(JsonLoads(chunk), "response")
FinalAnswers == {i \in DOMAIN events : IsFinalAnswer(events[i])}
FinalEmitted == FinalAnswers # {}

(* A `data: ` line whose payload is exactly [DONE]. *)
IsDoneLine(line) ==
    line.valid_utf8 /\ line.prefix = "data: " /\ line.payload = Str("[DONE]")

(* A `data: ` line whose payload is not [DONE] and is not a JSON document. *)
IsBadJsonLine(line) ==
    /\ line.valid_utf8
    /\ line.prefix = "data: "
    /\ line.payload # Str("[DONE]")
    /\ "j" \notin DOMAIN line.payload

(* A `data: ` line that carries a response.output_text.delta document. *)
IsDeltaLine(line) ==
    /\ line.valid_utf8
    /\ line.prefix = "data: "
    /\ "j" \in DOMAIN line.payload
    /\ line.payload.j.k = "map"
    /\ "type" \in DOMAIN line.payload.j.v
    /\ line.payload.j.v.type = Str("response.output_text.delta")
    /\ "delta" \in DOMAIN line.payload.j.v

DeltaOf(line) == line.payload.j.v.delta

(* A line whose delta decodes to a trace document or a final answer. *)
IsValidEventLine(line) ==
    /\ IsDeltaLine(line)
    /\ DeltaOf(line).k = "str"
    /\ "j" \in DOMAIN DeltaOf(line)
    /\ DeltaOf(line).j.k = "map"
    /\ \/ /\ "type" \in DOMAIN DeltaOf(line).j.v
          /\ DeltaOf(line).j.v.type = Str("trace")
       \/ "response" \in DOMAIN DeltaOf(line).j.v

(* A valid line that carries a final answer and not a trace. *)
IsFinalLine(line) ==
    /\ IsValidEventLine(line)
    /\ "response" \in DOMAIN DeltaOf(line).j.v
    /\ ~("type" \in DOMAIN DeltaOf(line).j.v
         /\ DeltaOf(line).j.v.type = Str("trace"))

(* A malformed line: bad top-level JSON, a top-level document that is not  *)
(* a mapping, or a delta that does not decode to a mapping.                *)
IsMalformedLine(line) ==
    \/ IsBadJsonLine(line)
    \/ /\ line.valid_utf8 /\ line.prefix = "data: "
       /\ "j" \in DOMAIN line.payload
       /\ line.payload.j.k # "map"
    \/ /\ IsDeltaLine(line)
       /\ DeltaOf(line) # Str("")
       /\ ~(DeltaOf(line).k = "str" /\ "j" \in DOMAIN DeltaOf(line)
            /\ DeltaOf(line).j.k = "map")

EventsOfLine(i) == {e \in DOMAIN events : origin[e] = i}

(* C1 (as claimed): once an event carrying a `response` key has been       *)
(* emitted, no further event is emitted and no further line is read.       *)
C1_FinalAnswerTerminates ==
    [][FinalEmitted => (events' = events /\ linesRead' = linesRead)]_vars

(* C2: a `data: ` line whose payload is exactly [DONE] ends the sequence:  *)
(* it is the last line read, the generator has returned, and every event   *)
(* comes from an earlier line.                                             *)
C2_DoneEndsStream ==
    \A i \in DOMAIN linesRead :
        IsDoneLine(linesRead[i]) =>
            /\ i = Len(linesRead)
            /\ pc = "done"
            /\ failure = ""
            /\ \A e \in DOMAIN events : origin[e] \in 1..(i - 1)

C2_Witness ==
    /\ linesRead # <<>>
    /\ IsDoneLine(linesRead[Len(linesRead)])
    /\ Len(linesRead) < MaxLines
    /\ events # <<>>

NoEndBefore(j) ==
    \A m \in 1..(j - 1) :
        ~IsDoneLine(linesRead[m]) /\ ~IsFinalLine(linesRead[m])

(* C4: a malformed line never stops decoding: the generator stays in the   *)
(* loop after it, and every valid trace or final-answer line read after it *)
(* (with no terminator or final answer in between) has its event emitted.  *)
C4_MalformedDoesNotStop ==
    /\ [][(linesRead' # linesRead /\ IsMalformedLine(linesRead'[Len(linesRead')]))
            => pc' = "iter"]_vars
    /\ [](\A i, j \in DOMAIN linesRead :
            (i < j /\ IsMalformedLine(linesRead[i])
                   /\ IsValidEventLine(linesRead[j])
                   /\ NoEndBefore(j))
            => (\E e \in DOMAIN events :
                   origin[e] = j
                   /\ JsonLoads(events[e]) = DeltaOf(linesRead[j]).j))

C4_Witness ==
    \E i, j \in DOMAIN linesRead :
        /\ i < j
        /\ IsMalformedLine(linesRead[i])
        /\ ~IsBadJsonLine(linesRead[i])
        /\ IsValidEventLine(linesRead[j])
        /\ EventsOfLine(j) # {}

(* C5 (as claimed): a transport failure ends the stream with exactly one   *)
(* error-shaped FinalAnswer carrying the failure description as the last   *)
(* event, and no stream contains more than one FinalAnswer.                *)
C5_OneFinalAnswerOnFailure ==
    /\ failure # "" =>
          /\ pc = "done"
          /\ events # <<>>
          /\ JsonLoads(events[Len(events)]) = error_response_transport(failure)
          /\ JsonLoads(events[Len(events)]).v.error = Str(failure)
    /\ Cardinality(FinalAnswers) <= 1

(* C6: on a client that is not in direct-HTTP mode the generator emits     *)
(* exactly one error-shaped FinalAnswer and returns, without opening a     *)
(* request or reading a line.                                              *)
C6_UnsupportedMode ==
    ~use_direct_http =>
        /\ ~posted
        /\ linesRead = <<>>
        /\ pc \in {"start", "done"}
        /\ pc = "start" => events = <<>>
        /\ pc = "done" =>
              /\ Len(events) = 1
              /\ LET doc == JsonLoads(events[1])
                 IN  /\ doc.k = "map"
                     /\ DOMAIN doc.v = {"response", "charts", "table_data", "error"}
                     /\ doc.v.error.k = "str" /\ doc.v.error # Str("")
                     /\ doc.v.charts = List(<<>>)
                     /\ doc.v.table_data = None

C6_Witness == ~use_direct_http /\ pc = "done" /\ Len(events) = 1

-----------------------------------------------------------------------------
(* Properties of _parse_agent_response.                                    *)

Called == result # None
OutputArray == Get(raw_response, "output", List(<<>>)).v
Returned == Called /\ result.k = "map"

IsTextual(item) ==
    IsDict(item) /\ Get(item, "type", None) \in {Str("text"), Str("message")}

IsFunctionOutput(item) ==
    IsDict(item) /\ Get(item, "type", None) = Str("function_call_output")

(* A text or message item whose text is a JSON document with a `response`  *)
(* key (the self-describing convention).                                   *)
SelfDescribing(item) ==
    /\ IsTextual(item)
    /\ GetTextFromItem(item).k = "str"
    /\ "j" \in DOMAIN GetTextFromItem(item)
    /\ GetTextFromItem(item).j.k = "map"
    /\ "response" \in DOMAIN GetTextFromItem(item).j.v

(* An item outside the documented variants: not a mapping, or a text item  *)
(* whose text is not a text.                                               *)
Malformed(item) ==
    \/ ~IsDict(item)
    \/ /\ IsTextual(item)
       /\ GetTextFromItem(item).k # "str"
       /\ Truthy(GetTextFromItem(item))

NoSelfDescribing == \A i \in DOMAIN OutputArray : ~SelfDescribing(OutputArray[i])
NoMalformed == \A i \in DOMAIN OutputArray : ~Malformed(OutputArray[i])

(* The text item of the claim: {"response": "X", "charts": [],             *)
(* "table_data": null, "error": null}.                                     *)
ItemX == TextItem(Enc(SelfX))

(* C7 (as claimed): whenever a list of well-formed items contains the text *)
(* item with response "X", the returned response is "X", whatever the      *)
(* other items and its position.                                           *)
C7_SelfDescribingAlwaysWins ==
    (Called /\ NoMalformed /\ \E i \in DOMAIN OutputArray : OutputArray[i] = ItemX)
        => (result.k = "map" /\ result.v.response = Str("X"))

(* C7 (amended): the first self-describing text or message item in array   *)
(* order decides the response, provided the items before it are            *)
(* well-formed; so the response is "X" when no earlier item is itself      *)
(* self-describing.                                                        *)
C7_FirstSelfDescribingWins ==
    Called =>
        \A i \in DOMAIN OutputArray :
            ( /\ SelfDescribing(OutputArray[i])
              /\ \A m \in 1..(i - 1) : ~SelfDescribing(OutputArray[m])
                                       /\ ~Malformed(OutputArray[m]) )
            => ( /\ result.k = "map"
                 /\ result.v.response =
                        GetTextFromItem(OutputArray[i]).j.v.response
                 /\ OutputArray[i] = ItemX => result.v.response = Str("X") )

C7_Witness ==
    /\ Called
    /\ Len(OutputArray) = 3
    /\ OutputArray[3] = ItemX
    /\ IsFunctionOutput(OutputArray[1])
    /\ OutputArray[2] = TextItem(Str("A"))
    /\ result.v.response = Str("X")

(* The items whose extracted text is non-empty. *)
WithText ==
    {i \in DOMAIN OutputArray :
        IsDict(OutputArray[i]) /\ Truthy(GetTextFromItem(OutputArray[i]))}

Last(S) == CHOOSE i \in S : \A m \in S : m <= i
First(S) == CHOOSE i \in S : \A m \in S : i <= m

(* C8: when no item is self-describing, the response is the extracted text *)
(* of the last item in array order whose extracted text is non-empty, both *)
(* as _extract_summary computes it and in the returned result.             *)
C8_LastTextWins ==
    (Called /\ NoSelfDescribing /\ NoMalformed /\ WithText # {}) =>
        /\ ExtractSummary(OutputArray) =
               GetTextFromItem(OutputArray[Last(WithText)])
        /\ Returned =>
               result.v.response = GetTextFromItem(OutputArray[Last(WithText)])

C8_Witness ==
    /\ Returned
    /\ Len(OutputArray) = 3
    /\ OutputArray[1] = TextItem(Str("A"))
    /\ OutputArray[2] = MessageItem(Str("B"))
    /\ OutputArray[3] \in {TextItem(Str("")), OutputItem(Enc(Chart("bar")))}
    /\ result.v.response = Str("B")

(* The function_call_output items that the table parser turns into a table. *)
WithTable ==
    {i \in DOMAIN OutputArray :
        /\ IsFunctionOutput(OutputArray[i])
        /\ ParseGenieOutput(Get(OutputArray[i], "output", Str(""))) # None}

TableOfItem(i) == ParseGenieOutput(Get(OutputArray[i], "output", Str("")))

(* C9: in standard parsing table_data is the table of the first            *)
(* function_call_output item that parses to one, later tables are ignored, *)
(* and it is absent iff no item parses to a table.                         *)
C9_FirstTableWins ==
    (Called /\ NoSelfDescribing /\ NoMalformed) =>
        LET expected == IF WithTable = {} THEN None
                        ELSE TableOfItem(First(WithTable))
        IN  /\ ExtractGenieTable(OutputArray) = expected
            /\ Returned =>
                  /\ result.v.table_data = expected
                  /\ result.v.table_data = None <=> WithTable = {}

C9_Witness ==
    /\ Returned
    /\ Len(OutputArray) = 3
    /\ OutputArray[2] = OutputItem(Map([content |-> Genie2]))
    /\ OutputArray[3] = OutputItem(Enc(Map([content |-> Enc(Genie1)])))
    /\ result.v.table_data.v.columns = List(<<Str("title")>>)
    /\ result.v.table_data.v.data =
           List(<<List(<<Str("Naruto")>>), List(<<Str("Bleach")>>)>>)

(* The function_call_output items for which the chart parser returns a     *)
(* result, in array order.                                                 *)
RECURSIVE ChartResultsFrom(_)
ChartResultsFrom(i) ==
    IF i > Len(OutputArray) THEN <<>>
    ELSE IF /\ IsFunctionOutput(OutputArray[i])
            /\ ParseChartOutput(Get(OutputArray[i], "output", Str(""))) # None
         THEN <<ParseChartOutput(Get(OutputArray[i], "output", Str("")))>>
                 \o ChartResultsFrom(i + 1)
         ELSE ChartResultsFrom(i + 1)

(* C10 (as claimed): in standard parsing charts is exactly the sequence of *)
(* non-absent chart-parser results over the function_call_output items,    *)
(* in item order.                                                          *)
C10_ChartsInOrder ==
    (Called /\ NoSelfDescribing /\ NoMalformed) =>
        /\ ExtractCharts(OutputArray) = List(ChartResultsFrom(1))
        /\ Returned /\ result.v.charts = List(ChartResultsFrom(1))

-----------------------------------------------------------------------------
(* C11: for a raw payload whose output array is empty or missing, the      *)
(* result has response "Agent processed your request", charts [],          *)
(* table_data absent and error absent.                                     *)
C11_EmptyOutputDefaults ==
    (Called /\ OutputArray = <<>>) =>
        /\ Returned
        /\ result.v.response = Str("Agent processed your request")
        /\ result.v.charts = List(<<>>)
        /\ result.v.table_data = None
        /\ result.v.error = None

C11_Witness ==
    /\ Called
    /\ ~HasKey(raw_response, "output")
    /\ result.v.response = Str("Agent processed your request")
    /\ result.v.charts = List(<<>>)

-----------------------------------------------------------------------------
(* Properties of _parse_chart_output and _parse_genie_output.              *)

ChartCalled == parsed_chart # Pending
TableCalled == parsed_table # Pending

(* The document the parser works on: item_output, decoded when it is text. *)
ItemDoc == DecodeIfStr(item_output)

(* item_output is, or encodes, a mapping with a top-level plotly_json key. *)
IsDirectChart == IsDict(ItemDoc) /\ HasKey(ItemDoc, "plotly_json")

HasRowsAndColumns ==
    IsDict(ItemDoc) /\ HasKey(ItemDoc, "rows") /\ HasKey(ItemDoc, "columns")

(* C12: for a mapping with a top-level plotly_json key, structured or      *)
(* JSON-encoded, the parser returns a descriptor whose plotly_json equals  *)
(* that value exactly; the direct match wins over the rows/columns rule,   *)
(* so the descriptor is the document itself.                               *)
C12_DirectChartRoundTrip ==
    (ChartCalled /\ IsDirectChart) =>
        /\ IsDict(parsed_chart)
        /\ HasKey(parsed_chart, "plotly_json")
        /\ parsed_chart.v.plotly_json = ItemDoc.v.plotly_json
        /\ HasRowsAndColumns => parsed_chart = ItemDoc

C12_Witness ==
    /\ ChartCalled
    /\ item_output =
           Enc(BothShapes("bar", List(<<List(<<Enc(Chart("line"))>>)>>)))
    /\ parsed_chart.v.chart_type = Str("bar")
    /\ parsed_chart.v.plotly_json = Map([data |-> List(<<>>)])

(* item_output is a tabular wrapper whose first row's first cell is a text *)
(* that decodes to a mapping with a plotly_json key.                       *)
IsWrapperOfChart ==
    /\ HasRowsAndColumns
    /\ IsList(ItemDoc.v.rows) /\ Len(ItemDoc.v.rows.v) > 0
    /\ IsList(ItemDoc.v.rows.v[1]) /\ Len(ItemDoc.v.rows.v[1].v) > 0
    /\ IsStr(ItemDoc.v.rows.v[1].v[1])
    /\ "j" \in DOMAIN ItemDoc.v.rows.v[1].v[1]
    /\ IsDict(ItemDoc.v.rows.v[1].v[1].j)
    /\ HasKey(ItemDoc.v.rows.v[1].v[1].j, "plotly_json")

InnerDoc == ItemDoc.v.rows.v[1].v[1].j

(* C13 (as claimed): for every wrapper whose first cell decodes to a chart *)
(* document, the parser returns what it returns for the inner document.    *)
C13_UnwrapEqualsInner ==
    (ChartCalled /\ IsWrapperOfChart) =>
        parsed_chart = ParseChartOutput(InnerDoc)

(* C13 (amended): the same, for wrappers that have no top-level            *)
(* plotly_json key of their own.                                           *)
C13_UnwrapEqualsInnerWithoutDirect ==
    (ChartCalled /\ IsWrapperOfChart /\ ~IsDirectChart) =>
        /\ parsed_chart = ParseChartOutput(InnerDoc)
        /\ parsed_chart = InnerDoc
        /\ parsed_chart = ParseChartOutput(JsonDumps(InnerDoc))

C13_Witness ==
    /\ ChartCalled
    /\ item_output =
           Wrapper(List(<<List(<<Enc(Chart("line")), Str("{bad")>>)>>))
    /\ parsed_chart = Chart("line")

(* C14 (as claimed): for every input the parser returns a chart descriptor *)
(* (a mapping with a plotly_json key) or absent, never an exception.       *)
C14_ChartOrAbsent ==
    ChartCalled =>
        \/ parsed_chart = None
        \/ IsDict(parsed_chart) /\ HasKey(parsed_chart, "plotly_json")

(* The outer document is a mapping with a `content` key that decodes.      *)
HasContent ==
    /\ IsDict(ItemDoc) /\ HasKey(ItemDoc, "content")
    /\ ~IsRaise(DecodeIfStr(ItemDoc.v.content))

(* The twice-decoded document and the two parts the transform reads. *)
ContentDoc == DecodeIfStr(ItemDoc.v.content)
SchemaColumns ==
    IndexPath(ContentDoc, <<"statement_response", "manifest", "schema", "columns">>)
DataArray ==
    IndexPath(ContentDoc, <<"statement_response", "result", "data_array">>)

IsColumn(c) == IsDict(c) /\ HasKey(c, "name")
IsCell(c) == IsDict(c) /\ HasKey(c, "string_value")

(* A row given as a bare ordered sequence of cells. *)
IsBareRow(r) == IsList(r) /\ \A m \in DOMAIN r.v : IsCell(r.v[m])

(* A row given as a mapping whose `values` is the sequence of cells. *)
IsValuesRow(r) ==
    /\ IsDict(r) /\ HasKey(r, "values")
    /\ IsList(r.v.values)
    /\ \A m \in DOMAIN r.v.values.v : IsCell(r.v.values.v[m])

(* columns is a sequence of {name}, data_array a sequence. *)
HasGenieShape ==
    /\ HasContent
    /\ IsList(SchemaColumns)
    /\ \A i \in DOMAIN SchemaColumns.v : IsColumn(SchemaColumns.v[i])
    /\ IsList(DataArray)

NamesInOrder ==
    List([i \in DOMAIN SchemaColumns.v |-> SchemaColumns.v[i].v.name])

(* C15 (as claimed): every returned table has len(columns) equal to the    *)
(* number of schema columns and len(row) == len(columns) for every row.    *)
C15_RowsMatchColumns ==
    (TableCalled /\ IsDict(parsed_table)) =>
        /\ Len(parsed_table.v.columns.v) = Len(Iterate(SchemaColumns).v)
        /\ \A i \in DOMAIN parsed_table.v.data.v :
               Len(parsed_table.v.data.v[i].v) = Len(parsed_table.v.columns.v)

(* C16 (as claimed): when every data_array entry is itself an ordered      *)
(* sequence of {string_value} cells, the table has the column names in     *)
(* order and, per entry, the string_value of each cell in order.           *)
C16_RowsAsCellSequences ==
    ( /\ TableCalled /\ HasGenieShape
      /\ \A i \in DOMAIN DataArray.v : IsBareRow(DataArray.v[i]) )
    => parsed_table =
           Map([data |->
                  List([i \in DOMAIN DataArray.v |->
                          List([m \in DOMAIN DataArray.v[i].v |->
                                  DataArray.v[i].v[m].v.string_value])]),
                columns |-> NamesInOrder])

(* C16 (amended): when every data_array entry is a mapping whose `values`  *)
(* is an ordered sequence of {string_value} cells, the table has the       *)
(* column names in order and, per entry, the string_value of each cell of  *)
(* its `values` in order.                                                  *)
C16_RowsAsValuesOfCells ==
    ( /\ TableCalled /\ HasGenieShape
      /\ \A i \in DOMAIN DataArray.v : IsValuesRow(DataArray.v[i]) )
    => parsed_table =
           Map([data |->
                  List([i \in DOMAIN DataArray.v |->
                          List([m \in DOMAIN DataArray.v[i].v.values.v |->
                                  DataArray.v[i].v.values.v[m].v.string_value])]),
                columns |-> NamesInOrder])

C16_Witness ==
    /\ TableCalled
    /\ parsed_table =
           Map([data |-> List(<<List(<<Str("EU"), Str("10")>>),
                                List(<<Str("1"), Num(5)>>)>>),
                columns |-> List(<<Str("b"), Str("a")>>)])
    /\ IsStr(item_output) /\ IsStr(ItemDoc.v.content)

(* C17 (as claimed): no exception leaves the parser, and a table is        *)
(* returned only when nothing in the document has the wrong type: columns  *)
(* and data_array are sequences, every column a {name}, every row a        *)
(* mapping whose `values` is a sequence of {string_value} cells.           *)
C17_MalformedYieldsAbsent ==
    TableCalled =>
        /\ ~IsRaise(parsed_table)
        /\ parsed_table # None =>
              /\ HasGenieShape
              /\ \A i \in DOMAIN DataArray.v : IsValuesRow(DataArray.v[i])

-----------------------------------------------------------------------------
(* Properties of chat.                                                     *)

ChatDone == pc = "chat_done"

HasResultKeys(r) ==
    IsDict(r) /\ {"response", "charts", "table_data", "error"} \subseteq DOMAIN r.v

(* response None, charts empty, table_data absent, a non-empty error text. *)
ErrorShaped(r) ==
    /\ HasResultKeys(r)
    /\ r.v.response = None
    /\ r.v.charts = List(<<>>)
    /\ r.v.table_data = None
    /\ IsStr(r.v.error) /\ r.v.error # Str("")

(* C18: chat never raises.  Every result has the keys response, charts,    *)
(* table_data and error; when the transport call failed (nothing was       *)
(* parsed) or the extraction raised, the result has response None, charts  *)
(* empty, table_data absent and a non-empty error text.                    *)
C18_ChatNeverRaises ==
    ChatDone =>
        /\ ~IsRaise(chat_result)
        /\ HasResultKeys(chat_result)
        /\ (result = None \/ IsRaise(result)) => ErrorShaped(chat_result)
        /\ ~IsDict(raw_response) => ErrorShaped(chat_result)

C18_Witness ==
    /\ ChatDone
    /\ IsDict(raw_response)
    /\ IsList(Get(raw_response, "output", List(<<>>)))
    /\ OutputArray = <<TextItem(Str("A")), TextItem(Num(5))>>
    /\ result = Raise("AttributeError")
    /\ ErrorShaped(chat_result)

-----------------------------------------------------------------------------
(* Properties of the consume loop.                                         *)

(* A consumed chunk that carries a `response` key. *)
HasResponseKey(chunk) ==
    IsDict(JsonLoads(chunk)) /\ HasKey(JsonLoads(chunk), "response")

(* A consumed chunk that is a final answer for the handler: a `response`   *)
(* key and no `type` of "trace".                                           *)
IsUIFinal(chunk) ==
    HasResponseKey(chunk) /\ Get(JsonLoads(chunk), "type", None) # Str("trace")

(* Once past the loop nothing is pulled, consumed or rendered any more. *)
NothingAfterTheLoop ==
    ui_pc = "after" =>
        UNCHANGED <<linesRead, events, consumed, trace_order, active_traces,
                    final_response>>

(* C19 (as claimed): the loop stops at the first consumed event that has a *)
(* `response` key: such an event is the last one consumed, it is the       *)
(* stored final response, and nothing is consumed or rendered after it.    *)
C19_StopsAtFirstResponseKey ==
    /\ [](\A i \in DOMAIN consumed :
             HasResponseKey(consumed[i]) =>
                 /\ i = Len(consumed)
                 /\ ui_pc = "after"
                 /\ final_response = JsonLoads(consumed[i]))
    /\ [][NothingAfterTheLoop]_vars

(* C19 (amended): the loop stops at the first consumed event that has a    *)
(* `response` key and is not of type "trace": such an event is the last    *)
(* one consumed, it is the stored final response, and nothing is pulled,   *)
(* consumed or rendered after it; a stored final response is always such   *)
(* an event.                                                               *)
C19_StopsAtFirstFinalAnswer ==
    /\ [](\A i \in DOMAIN consumed :
             IsUIFinal(consumed[i]) =>
                 /\ i = Len(consumed)
                 /\ ui_pc = "after"
                 /\ final_response = JsonLoads(consumed[i]))
    /\ [](final_response # None =>
             /\ Len(consumed) > 0
             /\ IsUIFinal(consumed[Len(consumed)])
             /\ Len(consumed) = Len(events))
    /\ [][NothingAfterTheLoop]_vars

C19_Witness ==
    /\ ui_pc = "after"
    /\ pc = "iter"
    /\ Len(linesRead) = 2
    /\ Len(consumed) = 2
    /\ Len(trace_order) = 1
    /\ final_response = FinalDoc("done")

-----------------------------------------------------------------------------
(* Properties of fetch_past_chats.                                         *)

(* C20: whatever the order in which the space and conversation fetches     *)
(* complete, the returned list is sorted by timestamp_ms, descending.      *)
C20_SortedDescending ==
    fetch_pc = "returned" =>
        \A i, j \in DOMAIN results :
            i < j => results[i].timestamp_ms >= results[j].timestamp_ms

(* Conversation c2 finished before c1, and the second space was collected  *)
(* first: the merged list was not in timestamp order before the sort.      *)
C20_Witness ==
    /\ fetch_pc = "returned"
    /\ Len(space_results["VOD KPI"]) = 3
    /\ space_results["VOD KPI"][1].timestamp_ms = 200
    /\ space_results["VOD KPI"][2].timestamp_ms = 300
    /\ Len(results) = 5
    /\ results[1].space_name = "VOD KPI"
    /\ results[2].space_name = "Viewership"
    /\ results[5].timestamp_ms = 100


-----------------------------------------------------------------------------
(* Properties of two query_stream calls on one client.                     *)

(* The chunks one generator yields for the lines it has read, from line i  *)
(* on: the loop body is run on each line until it breaks or raises.        *)
RECURSIVE ReplayFrom(_, _)
ReplayFrom(lines, i) ==
    IF i > Len(lines) THEN <<>>
    ELSE LET out == LineOutcome(lines[i])
         IN  IF out.act = "yield" THEN <<out.chunk>> \o ReplayFrom(lines, i + 1)
             ELSE IF out.act = "skip" THEN ReplayFrom(lines, i + 1)
             ELSE <<>>

(* What the frame of a generator yields, given only what that generator    *)
(* met: its own lines and its own transport failure.                       *)
OwnEvents(frame) ==
    IF frame.pc = "done" /\ frame.linesRead = <<>> /\ frame.failure = ""
       /\ ~use_direct_http
    THEN <<JsonDumps(error_response_unsupported)>>
    ELSE ReplayFrom(frame.linesRead, 1)
         \o (IF frame.failure = "" THEN <<>>
             ELSE <<JsonDumps(error_response_transport(frame.failure))>>)

(* C21: two query_stream generators of one client do not interfere: the    *)
(* events of each are determined by its own lines (and its own transport   *)
(* failure), and a step of one generator, the caller's closing it          *)
(* included, leaves the lines, events and position of the other unchanged. *)
C21_StreamsIndependent ==
    /\ [](\A id \in DOMAIN streams :
              streams[id].events = OwnEvents(streams[id]))
    /\ [][\A id \in DOMAIN streams : \A other \in DOMAIN streams :
              (other # id /\ streams'[id] # streams[id])
                  => streams'[other] = streams[other]]_vars

(* One generator was closed after an event while the other went on to      *)
(* yield different events of its own.                                      *)
C21_Witness ==
    /\ DOMAIN streams = StreamIds
    /\ streams[1].pc = "closed"
    /\ Len(streams[1].events) = 1
    /\ Len(streams[2].events) = 2
    /\ streams[2].events[1] # streams[1].events[1]


(* The line that a step of the generator has just read. *)
JustRead == linesRead'[Len(linesRead')]

(* Events that lines produced appear in the order of their lines, one per  *)
(* line at most.                                                           *)
EventsInLineOrder ==
    \A e1, e2 \in DOMAIN events :
        (e1 < e2 /\ origin[e1] > 0 /\ origin[e2] > 0) => origin[e1] < origin[e2]

(* C22 (as claimed): a line produces an event only if it is a `data: `     *)
(* line whose payload is a response.output_text.delta document whose delta *)
(* decodes to a trace document or to a document with a `response` key;     *)
(* every other line produces no event and does not end the stream; events  *)
(* are emitted in the order of their lines.                                *)
C22_OnlyEventLinesEmit ==
    /\ [](\A i \in DOMAIN linesRead :
              EventsOfLine(i) # {} => IsValidEventLine(linesRead[i]))
    /\ [][(linesRead' # linesRead /\ ~IsValidEventLine(JustRead))
              => (events' = events /\ pc' = "iter")]_vars
    /\ []EventsInLineOrder

(* C22 (amended): the same, except that one of the other lines does end    *)
(* the stream: the `data: [DONE]` terminator, which produces no event and  *)
(* makes the generator return.                                             *)
C22_OnlyEventLinesEmitDoneEnds ==
    /\ [](\A i \in DOMAIN linesRead :
              EventsOfLine(i) # {} => IsValidEventLine(linesRead[i]))
    /\ [][(linesRead' # linesRead /\ ~IsValidEventLine(JustRead))
              => /\ events' = events
                 /\ pc' = IF IsDoneLine(JustRead) THEN "done" ELSE "iter"]_vars
    /\ []EventsInLineOrder

(* A line of another outer type and a delta that is not JSON were passed   *)
(* over between two lines that produced their events.                      *)
C22_Witness ==
    /\ Len(linesRead) = 3
    /\ IsValidEventLine(linesRead[1])
    /\ ~IsValidEventLine(linesRead[2])
    /\ ~IsMalformedLine(linesRead[2])
    /\ linesRead[2].prefix = DATA_PREFIX
    /\ IsValidEventLine(linesRead[3])
    /\ Len(events) = 2
    /\ origin = <<1, 3>>


(* C23 (as claimed): every cell of every row of a table that               *)
(* _parse_genie_output returns is text: a string_value of another type is  *)
(* coerced to its string form.                                             *)
C23_CellsAreText ==
    (TableCalled /\ IsDict(parsed_table)) =>
        \A i \in DOMAIN parsed_table.v.data.v :
            \A m \in DOMAIN parsed_table.v.data.v[i].v :
                IsStr(parsed_table.v.data.v[i].v[m])

(* The wrapper's first cell is text that decodes to a value that is not a  *)
(* mapping.                                                                *)
IsWrapperOfNonMapping ==
    /\ HasRowsAndColumns
    /\ IsList(ItemDoc.v.rows) /\ Len(ItemDoc.v.rows.v) > 0
    /\ IsList(ItemDoc.v.rows.v[1]) /\ Len(ItemDoc.v.rows.v[1].v) > 0
    /\ IsStr(ItemDoc.v.rows.v[1].v[1])
    /\ "j" \in DOMAIN ItemDoc.v.rows.v[1].v[1]
    /\ ~IsDict(ItemDoc.v.rows.v[1].v[1].j)

(* C24 (as claimed): every value other than absent that                    *)
(* _parse_chart_output returns is a mapping with a plotly_json key, and a  *)
(* wrapper whose first cell decodes to a value that is not a mapping       *)
(* yields absent.                                                          *)
C24_OnlyMappingsReturned ==
    ChartCalled =>
        /\ parsed_chart # None =>
               (IsDict(parsed_chart) /\ HasKey(parsed_chart, "plotly_json"))
        /\ (IsWrapperOfNonMapping /\ ~IsDirectChart) => parsed_chart = None


(* The embedded document of a self-describing item. *)
Embedded(item) == GetTextFromItem(item).j

(* The value of a key of a mapping, absent when the mapping has no such    *)
(* key.                                                                    *)
ValueOrAbsent(doc, key) == IF key \in DOMAIN doc.v THEN doc.v[key] ELSE None

(* C25: when the first self-describing item short-circuits (the items      *)
(* before it being well-formed), charts is the embedded document's charts  *)
(* or the empty sequence when it has none, table_data and error are the    *)
(* embedded document's values or absent, whatever charts and tables the    *)
(* function_call_output items of the array hold.                           *)
C25_ShortCircuitUsesEmbeddedOnly ==
    Called =>
        \A i \in DOMAIN OutputArray :
            ( /\ SelfDescribing(OutputArray[i])
              /\ \A m \in 1..(i - 1) : ~SelfDescribing(OutputArray[m])
                                       /\ ~Malformed(OutputArray[m]) )
            => LET doc == Embedded(OutputArray[i])
               IN  /\ result.k = "map"
                   /\ result.v.charts =
                          IF "charts" \in DOMAIN doc.v THEN doc.v.charts
                          ELSE List(<<>>)
                   /\ result.v.table_data = ValueOrAbsent(doc, "table_data")
                   /\ result.v.error = ValueOrAbsent(doc, "error")
                   /\ result.v.messages = List(OutputArray)

(* A chart item and a Genie item precede a self-describing item that has   *)
(* neither charts nor table: the result has no chart and no table.         *)
C25_Witness ==
    /\ Called
    /\ Len(OutputArray) = 3
    /\ OutputArray[1] = OutputItem(Enc(Chart("bar")))
    /\ OutputArray[2] = OutputItem(Enc(Map([content |-> Enc(Genie1)])))
    /\ OutputArray[3] = MessageItem(Enc(SelfW))
    /\ ExtractCharts(OutputArray) = List(<<Chart("bar")>>)
    /\ ExtractGenieTable(OutputArray) # None
    /\ result.v.charts = List(<<>>)
    /\ result.v.table_data = None
    /\ result.v.error = Str("partial")


-----------------------------------------------------------------------------
(* Properties of the consume loop: traces.                                 *)

(* A chunk that is a trace and has a `response` key as well. *)
IsTraceWithResponse(chunk) ==
    HasResponseKey(chunk) /\ Get(JsonLoads(chunk), "type", None) = Str("trace")

(* The chunk that a step of the loop has just consumed. *)
JustConsumed == consumed'[Len(consumed')]

(* C26: an inner document that has both `type == "trace"` and a `response` *)
(* key is emitted once, and the consume loop takes it as a trace: it is    *)
(* recorded under its step, it does not become the final response, and the *)
(* loop goes on.                                                           *)
C26_TraceTakesPrecedence ==
    /\ [](\A i \in DOMAIN linesRead :
              ( /\ IsValidEventLine(linesRead[i])
                /\ DeltaOf(linesRead[i]).j = TraceWithResponseDoc
                /\ NoEndBefore(i) )
              => /\ Cardinality(EventsOfLine(i)) = 1
                 /\ \A e \in EventsOfLine(i) :
                        JsonLoads(events[e]) = TraceWithResponseDoc)
    /\ [][(consumed' # consumed /\ IsTraceWithResponse(JustConsumed))
              => LET chunk_obj == JsonLoads(JustConsumed)
                 IN  /\ ui_pc' = "loop"
                     /\ final_response' = final_response
                     /\ chunk_obj.v.step \in DOMAIN active_traces'
                     /\ active_traces'[chunk_obj.v.step] = chunk_obj]_vars

(* The trace with a `response` key was consumed, and the loop went on to   *)
(* the final answer after it.                                              *)
C26_Witness ==
    /\ Len(consumed) = 2
    /\ IsTraceWithResponse(consumed[1])
    /\ trace_order = <<Str("plan")>>
    /\ active_traces[Str("plan")] = TraceWithResponseDoc
    /\ final_response = FinalDoc("done")
    /\ ui_pc = "after"


(* A chunk the loop records as a trace: a trace whose step can be a key of *)
(* active_traces (on a step that cannot, the membership test raises).      *)
IsRecordedTrace(chunk) ==
    /\ IsDict(JsonLoads(chunk))
    /\ Get(JsonLoads(chunk), "type", None) = Str("trace")
    /\ Hashable(Get(JsonLoads(chunk), "step", None))

TracesOf(step) ==
    {i \in DOMAIN consumed :
        /\ IsRecordedTrace(consumed[i])
        /\ Get(JsonLoads(consumed[i]), "step", None) = step}

(* The steps of the traces consumed so far. *)
StepsSeen ==
    {Get(JsonLoads(consumed[i]), "step", None) :
        i \in {m \in DOMAIN consumed : IsRecordedTrace(consumed[m])}}

(* C28: while trace events are consumed, trace_order holds each step once, *)
(* in order of first appearance; its elements are the keys of              *)
(* active_traces; and active_traces[step] is the latest trace event        *)
(* received for the step.                                                  *)
C28_TraceOrderMatchesActiveTraces ==
    ui_pc # "idle" =>
        /\ \A i, m \in DOMAIN trace_order :
               trace_order[i] = trace_order[m] => i = m
        /\ {trace_order[i] : i \in DOMAIN trace_order} = DOMAIN active_traces
        /\ DOMAIN active_traces = StepsSeen
        /\ \A i, m \in DOMAIN trace_order :
               i < m => First(TracesOf(trace_order[i]))
                            < First(TracesOf(trace_order[m]))
        /\ \A step \in DOMAIN active_traces :
               active_traces[step] = JsonLoads(consumed[Last(TracesOf(step))])

(* Two steps were seen, the first of them twice: it is listed once, before *)
(* the other, with its later event.                                        *)
C28_Witness ==
    /\ ui_pc = "loop"
    /\ Len(consumed) = 3
    /\ trace_order = <<Str("plan"), Str("sql")>>
    /\ consumed[1] = JsonDumps(TraceDoc("plan", "in_progress"))
    /\ consumed[2] = JsonDumps(TraceDoc("sql", "in_progress"))
    /\ active_traces[Str("plan")] = TraceDoc("plan", "completed")


-----------------------------------------------------------------------------
(* Properties of a turn of the chat input handler.                         *)

RoleOf(message) == message.v.role

(* C27: for every prompt and every outcome of the stream (final answer,    *)
(* no final answer, exception while streaming or displaying) the handler   *)
(* appends one user message when the prompt is submitted and one assistant *)
(* message when the turn ends, nothing else changes the conversation, and  *)
(* is_processing, set during the turn, is False again at its end.          *)
C27_OneUserOneAssistantPerTurn ==
    /\ [][session_messages' # session_messages =>
             \/ /\ ui_pc = "idle" /\ ui_pc' = "loop"
                /\ \E prompt \in Prompts :
                       session_messages' =
                           Append(session_messages, UserMessage(prompt))
             \/ /\ ui_pc \in {"after", "failed"} /\ ui_pc' = "done"
                /\ Len(session_messages') = Len(session_messages) + 1
                /\ SubSeq(session_messages', 1, Len(session_messages))
                       = session_messages
                /\ RoleOf(session_messages'[Len(session_messages')])
                       = Str("assistant")]_vars
    /\ [](ui_pc \in {"loop", "after", "failed"} =>
             /\ is_processing
             /\ RoleOf(session_messages[Len(session_messages)]) = Str("user"))
    /\ [](ui_pc = "done" =>
             /\ ~is_processing
             /\ Len(session_messages) >= 2
             /\ RoleOf(session_messages[Len(session_messages)]) = Str("assistant")
             /\ RoleOf(session_messages[Len(session_messages) - 1]) = Str("user"))
    /\ [][(ui_pc \in {"after", "failed"}) => ui_pc' = "done"]_vars

(* A turn that ended on an exception raised while displaying the final     *)
(* response: the error is the one assistant message after the prompt.      *)
C27_Witness ==
    /\ ui_pc = "done"
    /\ final_response = FinalBadChartsDoc
    /\ Len(session_messages) = 3
    /\ session_messages[2] = UserMessage("revenue by region?")
    /\ session_messages[3] = ErrorMessage("TypeError")
    /\ ~is_processing


-----------------------------------------------------------------------------
(* Properties of _parse_agent_response: texts that start with `{`.         *)

(* A text or message item whose text starts with `{` and either is not     *)
(* JSON or decodes to a document without a `response` key.                 *)
BraceNotSelfDescribing(item) ==
    /\ IsTextual(item)
    /\ IsStr(GetTextFromItem(item))
    /\ StartsWithBrace(GetTextFromItem(item))
    /\ ~SelfDescribing(item)

(* No self-describing and no malformed item among the items lo..hi. *)
PlainBetween(lo, hi) ==
    \A m \in lo..hi :
        ~SelfDescribing(OutputArray[m]) /\ ~Malformed(OutputArray[m])

(* C29: an item whose text starts with `{` but is not a self-describing    *)
(* document neither short-circuits nor stops the scan: the first           *)
(* self-describing item after it still short-circuits; when there is none, *)
(* the result is that of standard parsing, and the item's raw text is the  *)
(* summary when it is the last item with text.                             *)
C29_BraceTextDoesNotStopScan ==
    Called =>
        \A i \in DOMAIN OutputArray :
            (BraceNotSelfDescribing(OutputArray[i]) /\ PlainBetween(1, i - 1))
            => /\ \A j \in DOMAIN OutputArray :
                      ( /\ j > i
                        /\ SelfDescribing(OutputArray[j])
                        /\ PlainBetween(i + 1, j - 1) )
                      => result =
                             ShortCircuitResult(Embedded(OutputArray[j]),
                                                OutputArray)
               /\ (NoSelfDescribing /\ NoMalformed) =>
                      /\ result = StandardResult(OutputArray)
                      /\ i = Last(WithText) =>
                             /\ ExtractSummary(OutputArray)
                                    = GetTextFromItem(OutputArray[i])
                             /\ Returned =>
                                    result.v.response
                                        = GetTextFromItem(OutputArray[i])

(* A text that is not JSON and a document without a `response` key come    *)
(* before a self-describing item, which decides the result.                *)
C29_Witness ==
    /\ Called
    /\ Len(OutputArray) = 3
    /\ OutputArray[1] = TextItem(Str("{not json"))
    /\ OutputArray[2] = TextItem(Enc(Map([answer |-> Str("Z")])))
    /\ OutputArray[3] = MessageItem(Enc(SelfY))
    /\ result.v.response = Str("Y")
    /\ result.v.charts = List(<<Chart("pie")>>)


-----------------------------------------------------------------------------
(* Properties of fetch_past_chats: failures.                               *)

(* The entry of a message of the API. *)
EntryOf(space_name, msg) ==
    [space_name |-> space_name, query |-> msg.content,
     timestamp_ms |-> TimestampMs(msg)]

(* The entries of the messages with non-empty content. *)
NonEmptyEntries(space_name, msgs) ==
    LET kept == SelectSeq(msgs, LAMBDA m : m.content # "")
    IN  [i \in DOMAIN kept |-> EntryOf(space_name, kept[i])]

(* The conversations of space s whose fetch has been collected. *)
Fetched(s) ==
    IF space_pc[s] = "submitted" \/ listing_error[s] THEN {}
    ELSE {i \in DOMAIN remote[s] : remote[s][i].id # ""} \ conv_pending[s]

(* The entries of the successful fetches among the first n conversations   *)
(* of space s, in the order of the listing.                                *)
RECURSIVE ConvEntries(_, _)
ConvEntries(s, n) ==
    IF n = 0 THEN <<>>
    ELSE ConvEntries(s, n - 1)
         \o (IF n \in Fetched(s) /\ remote[s][n].ok
             THEN NonEmptyEntries(s, remote[s][n].messages) ELSE <<>>)

(* The same for a set of spaces. *)
RECURSIVE SpaceEntries(_)
SpaceEntries(S) ==
    IF S = {} THEN <<>>
    ELSE LET s == CHOOSE x \in S : TRUE
         IN  ConvEntries(s, Len(remote[s])) \o SpaceEntries(S \ {s})

(* Two sequences hold the same elements the same number of times. *)
SameBag(a, b) ==
    /\ Len(a) = Len(b)
    /\ \A i \in DOMAIN a :
           Cardinality({m \in DOMAIN a : a[m] = a[i]})
               = Cardinality({m \in DOMAIN b : b[m] = a[i]})

====
